---- MODULE Spec2Model ----
(***************************************************************************)
(* The playback queue engine of the music bot (src/main.py): one global    *)
(* MusicBot instance, coroutines on one asyncio event loop, a voice client *)
(* per guild whose player thread reports completion through a callback.   *)
(*                                                                         *)
(* One action is one run of a coroutine between two suspension points      *)
(* (await of extraction, download, ctx.send, sleep, lock), which is the    *)
(* atomic unit of a single-threaded cooperative scheduler. ctx.send is     *)
(* taken to return: a message that cannot be delivered is not modelled.    *)
(***************************************************************************)
EXTENDS Integers, Sequences, FiniteSets, Bags, TLC

\* ---------------------------------------------------------------- bounds
\* the time, in seconds, up to which SpecCache lets the clock run
MaxTime == 700
\* calls of extract_info_fast in one behaviour of SpecCache
MaxCalls == 3
\* commands that create queue entries (play, playnext <url>, playlist,
\* restart) issued in one behaviour of Spec; the other commands are free
MaxCmds == 2
\* play commands issued in one behaviour of SpecFifo / SpecGuilds
MaxPlays == 3
\* longest queue a skip-ahead pass of SpecPass starts from
MaxPass == 11
\* distinct videos the commands of Spec may name
NumUrls == 2
\* longest result list of one playlist command in Spec
MaxList == 2
\* most entries a playlist command lets the queue hold
QueueLimit == 100
\* longest queue SpecDrain plays to its end
MaxDrain == 3
\* longest queue the queue-editing commands are applied to
MaxQueue == 12
\* titles of the Catalogue that searches and playlists return
NumTitles == 4
\* most formats of an info dict
MaxFormats == 10
\* files the download folder has room for; a download that needs more fails
MaxFiles == 2
\* formats of an info dict whose scores are compared one with another
MaxCandidates == 3
\* calls of get_guild_lock in one behaviour of SpecLocks
MaxLockCalls == 6
\* entries in the queue that the queue command displays in SpecDisplay
MaxShown == 40

\* ------------------------------------------------------ program constants
\* main.py:49-50
FORCE_DOWNLOAD == TRUE
FORCE_DOWNLOAD_FRAGMENTED == TRUE
\* main.py:102  current_track = None
NoTrack == 0
\* main.py:922-929  queues of up to 20 entries are shown whole, of longer
\* ones the first 15 and the last 5
ShowAll == 20
ShowFirst == 15
ShowLast == 5
\* main.py:1260  len(failed_songs) % 5 == 1
NoticePeriod == 5
NoticePhase == 1
\* main.py:1750  queue_length < 10
ShuffleMin == 10
\* main.py:46
CACHE_DURATION == 300

Guilds == {1, 2}
CmdUrls == 1 .. NumUrls

VARIABLES
    queue,            \* music_bot.queue: sequence of entry ids
    current_track,    \* music_bot.current_track: entry id or NoTrack
    entries,          \* every QueueEntry ever created: id -> [url, g]
    info,             \* ids of the entries whose .info is set, among those
                      \* that are queued or being resolved by play_audio
    downloaded_files, \* music_bot.downloaded_files
    fs,               \* files in the download folder: <<path, "ok" | "small">>
    locks,            \* music_bot.locks: guild -> held?
    timeout_tasks,    \* music_bot.timeout_tasks: guild -> state of the task
    voice,            \* ctx.guild.voice_client of each guild
    tasks,            \* bag of suspended coroutines
    cmds,             \* entry-creating commands issued so far
    dequeued,         \* history: entries popped by play_next, in order
    started,          \* history: entries handed to a voice client, in order
    attemptFiles,     \* history: files that download_audio wrote for a
                      \* playback attempt and that nobody has removed
    teardown,         \* history: guild -> how handle_idle's leave_voice ended
    program,          \* the entry point that runs: "main" (main.py),
                      \* "main_efficient" or "bot_main"
    info_cache,       \* music_bot.info_cache: url -> info, an info dict
                      \* being named by the time of its extraction
    cache_times,      \* music_bot.cache_times: url -> time of the store
    now,              \* time.time(), in seconds
    lock_dict,        \* music_bot.locks / queue_manager.locks: guild -> the
                      \* Lock object, named by the order of its construction
    locks_made,       \* how many asyncio.Lock() have been constructed
    idle_timers       \* history: guild -> [stray: the handle_idle tasks that
                      \* are pending and that timeout_tasks does not refer
                      \* to, replaced: the entries of timeout_tasks that a
                      \* new task was stored over]

vars == <<queue, current_track, entries, info, downloaded_files, fs, locks,
          timeout_tasks, voice, tasks, cmds, dequeued, started,
          attemptFiles, teardown, program,
          info_cache, cache_times, now, lock_dict, locks_made, idle_timers>>

\* ------------------------------------------------------------ state record
\* The whole state as one record, so that the code of a coroutine segment
\* can be written as a function from state to the set of possible states.
Cur ==
    [queue |-> queue, current_track |-> current_track, entries |-> entries,
     info |-> info, downloaded_files |-> downloaded_files, fs |-> fs,
     locks |-> locks, timeout_tasks |-> timeout_tasks, voice |-> voice,
     tasks |-> tasks, cmds |-> cmds, dequeued |-> dequeued,
     started |-> started,
     attemptFiles |-> attemptFiles, teardown |-> teardown,
     program |-> program, info_cache |-> info_cache,
     cache_times |-> cache_times, now |-> now, lock_dict |-> lock_dict,
     locks_made |-> locks_made, idle_timers |-> idle_timers]

Apply(s) ==
    /\ queue' = s.queue
    /\ current_track' = s.current_track
    /\ entries' = s.entries
    /\ info' = s.info
    /\ downloaded_files' = s.downloaded_files
    /\ fs' = s.fs
    /\ locks' = s.locks
    /\ timeout_tasks' = s.timeout_tasks
    /\ voice' = s.voice
    /\ tasks' = s.tasks
    /\ cmds' = s.cmds
    /\ dequeued' = s.dequeued
    /\ started' = s.started
    /\ attemptFiles' = s.attemptFiles
    /\ teardown' = s.teardown
    /\ program' = s.program
    /\ info_cache' = s.info_cache
    /\ cache_times' = s.cache_times
    /\ now' = s.now
    /\ lock_dict' = s.lock_dict
    /\ locks_made' = s.locks_made
    /\ idle_timers' = s.idle_timers

\* A dict without keys, and the state in which nothing has been cached at
\* time 0 (main.py:103-104) and no lock made (main.py:190).
EmptyDict == [u \in {} |-> 0]

NoCache ==
    /\ info_cache = EmptyDict
    /\ cache_times = EmptyDict
    /\ now = 0
    /\ lock_dict = EmptyDict
    /\ locks_made = 0
    /\ idle_timers = [g \in Guilds |-> [stray |-> 0, replaced |-> 0]]

\* The error that the player thread passes to the after callback: None when
\* the source ended, otherwise an exception whose message playback_finished
\* sorts into network, ffmpeg termination and other (main.py:1188-1200).
NoError == "none"
ErrorKinds == {"network", "ffmpeg", "other"}
Errors == {NoError} \cup ErrorKinds

\* A suspended coroutine: where it waits, its ctx.guild, its queue entry,
\* len(failed_songs), the batched notices it has sent, and a file or url.
\* The frame of playback_finished also holds the error it was called with.
Tk(pc, g, e, failed, notices, f) ==
    [pc |-> pc, g |-> g, e |-> e, failed |-> failed, notices |-> notices,
     f |-> f, error |-> NoError]

Spawn(s, t) == [s EXCEPT !.tasks = @ (+) SetToBag({t})]
Without(s, t) == [s EXCEPT !.tasks = @ (-) SetToBag({t})]

NoPlayer == [conn |-> FALSE, st |-> "idle", e |-> NoTrack, f |-> 0]
Joined == [conn |-> TRUE, st |-> "idle", e |-> NoTrack, f |-> 0]

IsPlaying(v) == v.st = "playing"
IsPaused(v) == v.st = "paused"

\* ------------------------------------------------------- queue primitives
QueueInsertBack(q, e) == Append(q, e)
\* main.py:1508, 2009: queue.insert(0, entry)
QueueInsertFront(q, e) == <<e>> \o q
QueuePrepend(q, e) == <<e>> \o q
\* main.py:1405 / add_to_queue: queue.append(entry)
QueueAppend(q, e) == Append(q, e)
\* main.py:1244: queue.pop(0) removes the first entry and returns it
QueuePop(q) == Tail(q)
QueueLast(q) == q[Len(q)]
QueueHead(q) == Head(q)
QueueRemoveAfter(q, p) == SubSeq(q, 1, p) \o SubSeq(q, p + 2, Len(q))
\* main.py:1449, 1729: queue.pop(position - 1)
QueueRemoveAt(q, p) == SubSeq(q, 1, p - 1) \o SubSeq(q, p + 1, Len(q))

NoticeAlways(n) == n >= 1
NoticeEveryThird(n) == n % 3 = 1
\* main.py:1260: the batched notice is due after this many failures
NoticeDue(n) == n % NoticePeriod = NoticePhase

DecisionIgnoringUrl(force, force_fragmented, m) ==
    \/ force
    \/ (force_fragmented /\ m.is_fragmented)
    \/ m.flagged

\* main.py:1092-1097: the decision to download instead of streaming
Decision(force, force_fragmented, m) ==
    \/ force
    \/ (force_fragmented /\ m.is_fragmented)
    \/ ~m.stream_url
    \/ m.flagged

needs_download(m) == Decision(FORCE_DOWNLOAD, FORCE_DOWNLOAD_FRAGMENTED, m)

\* What select_format and the _needs_download flag say about one info dict.
StreamInfo ==
    [stream_url : BOOLEAN, is_fragmented : BOOLEAN, flagged : BOOLEAN]

\* ----------------------------------------------------------------- formats
\* A format of an info dict: url is "" when the format has none, acodec is
\* FALSE when the audio codec is None or 'none', live tells whether the
\* format_note contains 'live', abr is the bitrate (tbr is absent).
NoUrl == ""

\* main.py:280, audio_manager.py:68, main_efficient.py:92
Qualifies(f) == f.url # NoUrl /\ f.acodec

\* main.py:284-285 and main_efficient.py:96-97
is_fragmented(f) ==
    f.fragments \/ f.fragment_base_url \/ f.protocol \in {"m3u8", "dash"}

\* audio_manager.py:47-54
_is_fragmented(f) ==
    \/ f.fragment_base_url \/ f.fragments
    \/ f.protocol \in {"m3u8", "m3u8_native", "dash", "f4m", "ism"}

\* main.py:288-290
has_seek_issues(f) == f.fragment_base_url \/ f.protocol = "dash" \/ f.live

\* main.py:293-294
is_fast_format(f) == f.protocol \in {"https", "http"} /\ ~f.fragments

\* main.py:296-306
Score(f) ==
    LET score == f.abr
                   + (IF ~is_fragmented(f) THEN 1000 ELSE 0)
                   + (IF ~has_seek_issues(f) THEN 500 ELSE 0)
                   + (IF is_fast_format(f) THEN 200 ELSE 0)
    IN  IF score > 0 /\ score <= 160 THEN score + 50 ELSE score

\* main_efficient.py:99-101
ScoreEfficient(f) == f.abr + (IF ~is_fragmented(f) THEN 1000 ELSE 0)

\* audio_manager.py:75-79
ScoreManager(f) ==
    f.abr + (IF ~_is_fragmented(f) THEN 1000 ELSE 0)
          + (IF f.protocol \in {"https", "http"} THEN 100 ELSE 0)

PickLast(formats, scores, i, best, best_score) == Len(formats)
\* main.py:276-310: the loop over the formats from the i-th on; best is the
\* position of the best format so far, 0 when there is none
RECURSIVE PickBest(_, _, _, _, _)
PickBest(formats, scores, i, best, best_score) ==
    IF i > Len(formats)
    THEN best
    ELSE IF Qualifies(formats[i]) /\ scores[i] > best_score
         THEN PickBest(formats, scores, i + 1, i, scores[i])
         ELSE PickBest(formats, scores, i + 1, best, best_score)

Selected(formats, best, frag) ==
    IF best = 0
    THEN [url |-> NoUrl, is_fragmented |-> FALSE]
    ELSE [url |-> formats[best].url, is_fragmented |-> frag]

\* main.py:269-317
select_format(formats) ==
    LET scores == [i \in 1 .. Len(formats) |-> Score(formats[i])]
        best == PickBest(formats, scores, 1, 0, -1)
    IN  Selected(formats, best, best # 0 /\ is_fragmented(formats[best]))

\* main_efficient.py:81-112
select_format_efficient(formats) ==
    LET scores == [i \in 1 .. Len(formats) |-> ScoreEfficient(formats[i])]
        best == PickBest(formats, scores, 1, 0, -1)
    IN  Selected(formats, best, best # 0 /\ is_fragmented(formats[best]))

\* audio_manager.py:56-86
select_best_format(formats) ==
    LET scores == [i \in 1 .. Len(formats) |-> ScoreManager(formats[i])]
        best == PickBest(formats, scores, 1, 0, -1)
    IN  Selected(formats, best, best # 0 /\ _is_fragmented(formats[best]))

\* how many formats of the list satisfy the test given as a list of booleans
RECURSIVE Count(_)
Count(flags) ==
    IF flags = <<>> THEN 0
    ELSE (IF Head(flags) THEN 1 ELSE 0) + Count(Tail(flags))

WithUrl(formats) == Count([i \in 1 .. Len(formats) |-> formats[i].url # NoUrl])

\* main.py:223-225 and main_efficient.py:72-74: info['_needs_download']
_needs_download(formats) ==
    Len(formats) > 0 /\ WithUrl(formats) * 3 < Len(formats)

\* audio_manager.py:32-45: info['_sabr_affected']
_detect_sabr(formats) ==
    LET total == Len(formats)
        with_url == WithUrl(formats)
        fragmented ==
            Count([i \in 1 .. Len(formats) |-> _is_fragmented(formats[i])])
    IN  /\ total > 0
        /\ (with_url = 0 \/ with_url * 4 < total \/ fragmented = total)

\* main.py:1084-1100: what play_audio makes of the formats
StreamInfoOf(formats) ==
    LET sel == select_format(formats)
    IN  [stream_url |-> sel.url # NoUrl, is_fragmented |-> sel.is_fragmented,
         flagged |-> _needs_download(formats)]

\* ------------------------------------------------------------ voice client
\* VoiceClient.play raises ClientException when not connected or already
\* playing; FFmpegPCMAudio raises when the ffmpeg process cannot be started.
CanPlay(v) == v.conn /\ ~IsPlaying(v)

\* VoiceClient.stop(): the player thread ends and calls the after callback,
\* which schedules playback_finished(ctx, error, filepath) on the loop
\* (main.py:986-1001). The coroutine first suspends in cleanup_file when it
\* has a file and in sleep(0.1) otherwise.
Finished(g, f) ==
    Tk(IF f # 0 THEN "pf_cleanup" ELSE "pf_sleep", g, NoTrack, 0, 0, f)

\* a playback_finished that returns at once when it is given an error
playback_finished_giving_up(g, error, f) ==
    IF error = NoError
    THEN Finished(g, f)
    ELSE [Tk("pf_done", g, NoTrack, 0, 0, f) EXCEPT !.error = error]

\* main.py:1185-1206: playback_finished(ctx, error, filepath) up to its first
\* suspension. The error is logged under one of three headings and has no
\* other use.
playback_finished(g, error, f) == [Finished(g, f) EXCEPT !.error = error]

\* The after callback, called by the player thread of guild g for a source
\* played from file f (0 for a stream). main.py:986-1001 hands
\* playback_finished to the loop with run_coroutine_threadsafe.
\* main_efficient.py:234, 245 and bot_main.py:89, 97 call
\* asyncio.create_task in the player thread, where no event loop runs: it
\* raises RuntimeError, which the player logs, and no coroutine is scheduled.
after_callback(s, g, error, f) ==
    IF s.program = "main" THEN Spawn(s, playback_finished(g, error, f)) ELSE s

\* the player thread of guild g ends and calls the after callback with error
PlayerEnds(s, g, error) ==
    IF IsPlaying(s.voice[g]) \/ IsPaused(s.voice[g])
    THEN after_callback([s EXCEPT !.voice[g].st = "idle",
                                  !.voice[g].e = NoTrack, !.voice[g].f = 0],
                        g, error, s.voice[g].f)
    ELSE s

\* VoiceClient.stop(): the player thread ends without an error
StopPlayer(s, g) == PlayerEnds(s, g, NoError)

\* ------------------------------------------------------------- file system
Exists(files, f) == \E p \in files : p[1] = f
\* main.py:1127-1128 / 363-366: os.path.getsize(path) >= 1000
BigEnough(files, f) == <<f, "ok">> \in files
WriteFile(files, f, size) == {p \in files : p[1] # f} \cup {<<f, size>>}
\* the download folder has room for one more file named f
HasRoom(files, f) ==
    Exists(files, f) \/ Cardinality({p[1] : p \in files}) < MaxFiles
\* main.py:949-951: os.remove(filepath) when it exists
RemoveFile(files, f) == {p \in files : p[1] # f}

\* -------------------------------------------------- play_next / play_audio
\* main.py:1255-1263: play_audio returned False
Fail(s, g, e, failed, notices) ==
    LET n == failed + 1
    IN  Spawn([s EXCEPT !.info = @ \ {e}],
              Tk(IF NoticeDue(n) THEN "pn_notice" ELSE "pn_sleep",
                 g, NoTrack, n, notices, 0))

\* main.py:1135-1152 and 1157-1174: voice_client.play(source, after=...)
TryPlay(s, g, e, f, failed, notices) ==
    { IF ffmpeg /\ CanPlay(s.voice[g])
      THEN Spawn([s EXCEPT !.voice[g] =
                      [conn |-> TRUE, st |-> "playing", e |-> e, f |-> f],
                           !.info = @ \ {e},
                           !.started = Append(@, e)],
                 Tk("pa_send_playing", g, NoTrack, failed, notices, 0))
      ELSE Spawn(s, Tk("pa_send_fail", g, e, failed, notices, 0))
      : ffmpeg \in BOOLEAN }

\* main.py:1100-1178: the download path when download is set, else the
\* stream when there is a stream url, else "No playable stream found"
Route(s, g, e, failed, notices, download, stream_url) ==
    IF download
    THEN {Spawn(s, Tk("pa_download", g, e, failed, notices, 0))}
    ELSE IF stream_url
         THEN TryPlay(s, g, e, 0, failed, notices)
         ELSE {Spawn(s, Tk("pa_send_fail", g, e, failed, notices, 0))}

\* main.py:1083-1178: entry.info is set
AfterInfo(s, g, e, failed, notices) ==
    UNION { Route(s, g, e, failed, notices, needs_download(m), m.stream_url)
            : m \in StreamInfo }

\* the handle_idle task that timeout_tasks[g] refers to has not ended
PendingIn(s, g) == s.timeout_tasks[g] \in {"sleeping", "sending"}

\* main.py:1230: timeout_tasks[guild_id].cancel()
TimerCancel(s, g) ==
    IF PendingIn(s, g) THEN [s EXCEPT !.timeout_tasks[g] = "cancelled"] ELSE s

\* main.py:1231: del timeout_tasks[guild_id]; a task that is still pending
\* runs on with no entry that refers to it
TimerDel(s, g) ==
    [s EXCEPT !.timeout_tasks[g] = "none",
              !.idle_timers[g].stray = @ + IF PendingIn(s, g) THEN 1 ELSE 0]

\* main.py:1241: timeout_tasks[guild_id] = asyncio.create_task(handle_idle(ctx))
TimerCreate(s, g) ==
    [s EXCEPT !.timeout_tasks[g] = "sleeping",
              !.idle_timers[g].stray = @ + IF PendingIn(s, g) THEN 1 ELSE 0,
              !.idle_timers[g].replaced =
                  @ + IF s.timeout_tasks[g] # "none" THEN 1 ELSE 0]

CancelTimerNot(s, g) == s
\* main.py:1229-1231, 1301-1303; bot_main.py:131-133, 188-190
CancelTimer(s, g) ==
    IF s.timeout_tasks[g] # "none" THEN TimerDel(TimerCancel(s, g), g) ELSE s

\* main.py:1059-1081: play_audio up to its first suspension
play_audio(s, g, e, failed, notices) ==
    IF ~s.voice[g].conn
    THEN {Fail(s, g, e, failed, notices)}
    ELSE LET s1 == [s EXCEPT !.current_track = e]
         IN  IF e \notin s.info
             THEN {Spawn(s1, Tk("pa_extract", g, e, failed, notices, 0))}
             ELSE AfterInfo(s1, g, e, failed, notices)

\* main.py:1226-1248: one iteration of play_next's loop, from the lock to the
\* first suspension of play_audio
play_next(s, g, failed, notices) ==
    IF s.locks[g]
    THEN {Spawn(s, Tk("pn_lock", g, NoTrack, failed, notices, 0))}
    ELSE LET s1 == CancelTimer(s, g)
         IN  IF s1.queue = <<>>
             THEN IF failed > 0
                  THEN {Spawn([s1 EXCEPT !.locks[g] = TRUE],
                              Tk("pn_summary", g, NoTrack, failed, notices, 0))}
                  ELSE {TimerCreate(s1, g)}
             ELSE LET e == QueueHead(s1.queue)
                      s2 == [s1 EXCEPT !.queue = QueuePop(@),
                                       !.dequeued = Append(@, e)]
                  IN  play_audio(s2, g, e, failed, notices)

\* ------------------------------------------------- steps of the coroutines
\* In each action below one suspended coroutine t resumes; the operator
\* before it gives the states its next segment can lead to.
AfterExtract(s, t) ==
    UNION { IF ok
            THEN AfterInfo([s EXCEPT !.info = @ \cup {t.e}],
                           t.g, t.e, t.failed, t.notices)
            ELSE {Spawn(s, Tk("pa_send_fail", t.g, t.e, t.failed, t.notices, 0))}
            : ok \in BOOLEAN }

\* main.py:1072: entry.info = await extract_info_fast(entry.url)
ExtractDone ==
    \E t \in BagToSet(tasks) :
        /\ t.pc = "pa_extract"
        /\ \E s \in AfterExtract(Without(Cur, t), t) : Apply(s)

\* main.py:319-379 download_audio, then main.py:1114-1131
AfterDownload(s, t) ==
    LET f == s.entries[t.e].url
        bad == Spawn(s, Tk("pa_send_fail", t.g, t.e, t.failed, t.notices, 0))
    IN  UNION {
          CASE r = "ok" ->
                 LET s1 == [s EXCEPT !.fs = WriteFile(@, f, "ok"),
                                     !.downloaded_files = @ \cup {f},
                                     !.attemptFiles = @ \cup {f}]
                 IN  IF Exists(s1.fs, f) /\ BigEnough(s1.fs, f)
                     THEN TryPlay(s1, t.g, t.e, f, t.failed, t.notices)
                     ELSE {Spawn(s1, Tk("pa_send_fail", t.g, t.e, t.failed,
                                        t.notices, 0))}
            [] r = "small" ->
                 {[bad EXCEPT !.fs = WriteFile(@, f, "small"),
                              !.attemptFiles = @ \cup {f}]}
            [] OTHER -> {bad}
          : r \in IF HasRoom(s.fs, f) THEN {"ok", "small", "none"}
                                       ELSE {"none"} }

DownloadDone ==
    \E t \in BagToSet(tasks) :
        /\ t.pc = "pa_download"
        /\ \E s \in AfterDownload(Without(Cur, t), t) : Apply(s)

\* a play_next that returns after the first failure
AfterSendFailReturns(s, t) == {[s EXCEPT !.info = @ \ {t.e}]}

AfterSendFail(s, t) == {Fail(s, t.g, t.e, t.failed, t.notices)}

\* the ctx.send of a failure message returns; play_audio returns False
SendFailDone ==
    \E t \in BagToSet(tasks) :
        /\ t.pc = "pa_send_fail"
        /\ \E s \in AfterSendFail(Without(Cur, t), t) : Apply(s)

\* main.py:1141-1148 and 1250-1253: the now-playing message is sent, the
\* preload task is created, play_audio returns True and play_next returns
AfterSendPlaying(s, t) ==
    IF s.queue # <<>>
    THEN {Spawn(s, Tk("pre_start", t.g, NoTrack, 0, 0, 0))}
    ELSE {s}

SendPlayingDone ==
    \E t \in BagToSet(tasks) :
        /\ t.pc = "pa_send_playing"
        /\ \E s \in AfterSendPlaying(Without(Cur, t), t) : Apply(s)

\* main.py:1261: the batched notice is sent
AfterNotice(s, t) ==
    {Spawn(s, Tk("pn_sleep", t.g, NoTrack, t.failed, t.notices + 1, 0))}

NoticeDone ==
    \E t \in BagToSet(tasks) :
        /\ t.pc = "pn_notice"
        /\ \E s \in AfterNotice(Without(Cur, t), t) : Apply(s)

\* main.py:1263: sleep(0.3) returns and the loop goes round
AfterSleep(s, t) == play_next(s, t.g, t.failed, t.notices)

SleepDone ==
    \E t \in BagToSet(tasks) :
        /\ t.pc = "pn_sleep"
        /\ \E s \in AfterSleep(Without(Cur, t), t) : Apply(s)

AfterSummaryUnarmed(s, t) == {[s EXCEPT !.locks[t.g] = FALSE]}
\* main.py:1237-1242: the summary is sent, the idle timer armed, the lock freed
AfterSummary(s, t) ==
    {[TimerCreate(s, t.g) EXCEPT !.locks[t.g] = FALSE]}

SummaryDone ==
    \E t \in BagToSet(tasks) :
        /\ t.pc = "pn_summary"
        /\ \E s \in AfterSummary(Without(Cur, t), t) : Apply(s)

\* main.py:1227: a play_next waiting for the guild lock gets it
LockAcquired ==
    \E t \in BagToSet(tasks) :
        /\ t.pc = "pn_lock"
        /\ ~locks[t.g]
        /\ \E s \in play_next(Without(Cur, t), t.g, t.failed, t.notices) :
               Apply(s)

\* the player thread reaches the end of the source while playing
TrackEnds(g) ==
    /\ IsPlaying(voice[g])
    /\ Apply(StopPlayer(Cur, g))

\* the player thread fails while playing: the read of the source or the
\* ffmpeg process raised
TrackFails(g) ==
    /\ IsPlaying(voice[g])
    /\ \E error \in ErrorKinds : Apply(PlayerEnds(Cur, g, error))

\* main.py:1205-1206 and 946-953: cleanup_file(filepath)
AfterCleanup(s, t) ==
    {Spawn([s EXCEPT !.fs = RemoveFile(@, t.f),
                     !.downloaded_files = @ \ {t.f},
                     !.attemptFiles = @ \ {t.f}],
           [Tk("pf_sleep", t.g, NoTrack, 0, 0, 0) EXCEPT !.error = t.error])}

CleanupDone ==
    \E t \in BagToSet(tasks) :
        /\ t.pc = "pf_cleanup"
        /\ \E s \in AfterCleanup(Without(Cur, t), t) : Apply(s)

\* main.py:1209-1210: sleep(0.1), then play_next(ctx)
AfterFinishedSleep(s, t) == play_next(s, t.g, 0, 0)

FinishedSleepDone ==
    \E t \in BagToSet(tasks) :
        /\ t.pc = "pf_sleep"
        /\ \E s \in AfterFinishedSleep(Without(Cur, t), t) : Apply(s)

\* ---------------------------------------------------------------- preload
\* a preload that resolves the last entry of the queue
AfterPreloadStartLast(s, t) ==
    IF s.queue = <<>> \/ s.queue[Len(s.queue)] \in s.info
    THEN {s}
    ELSE {Spawn(s, Tk("pre_extract", t.g, s.queue[Len(s.queue)], 0, 0, 0))}

\* main.py:381-392
AfterPreloadStart(s, t) ==
    IF s.queue = <<>> \/ Head(s.queue) \in s.info
    THEN {s}
    ELSE {Spawn(s, Tk("pre_extract", t.g, Head(s.queue), 0, 0, 0))}

PreloadStart ==
    \E t \in BagToSet(tasks) :
        /\ t.pc = "pre_start"
        /\ \E s \in AfterPreloadStart(Without(Cur, t), t) : Apply(s)

\* main.py:396-409
AfterPreloadExtract(s, t) ==
    { IF ok
      THEN IF FORCE_DOWNLOAD
           THEN Spawn([s EXCEPT !.info = @ \cup {t.e}],
                      Tk("pre_download", t.g, t.e, 0, 0, 0))
           ELSE [s EXCEPT !.info = @ \cup {t.e}]
      ELSE s
      : ok \in BOOLEAN }

PreloadExtractDone ==
    \E t \in BagToSet(tasks) :
        /\ t.pc = "pre_extract"
        /\ \E s \in AfterPreloadExtract(Without(Cur, t), t) : Apply(s)

\* main.py:409-413 with download_audio
AfterPreloadDownload(s, t) ==
    LET f == s.entries[t.e].url
    IN  { CASE r = "ok" -> [s EXCEPT !.fs = WriteFile(@, f, "ok"),
                                     !.downloaded_files = @ \cup {f}]
            [] r = "small" -> [s EXCEPT !.fs = WriteFile(@, f, "small")]
            [] OTHER -> s
          : r \in IF HasRoom(s.fs, f) THEN {"ok", "small", "none"}
                                       ELSE {"none"} }

PreloadDownloadDone ==
    \E t \in BagToSet(tasks) :
        /\ t.pc = "pre_download"
        /\ \E s \in AfterPreloadDownload(Without(Cur, t), t) : Apply(s)

\* ------------------------------------------------------------- idle timer
\* main.py:1268-1285: sleep(IDLE_TIMEOUT) returns
IdleElapsed(g) ==
    /\ timeout_tasks[g] = "sleeping"
    /\ timeout_tasks' =
           [timeout_tasks EXCEPT ![g] =
               IF voice[g].conn /\ ~IsPlaying(voice[g]) /\ queue = <<>>
               THEN "sending" ELSE "finished"]
    /\ UNCHANGED <<queue, current_track, entries, info, downloaded_files, fs,
                   locks, voice, tasks, cmds, dequeued, started,
                   attemptFiles, teardown, program,
          info_cache, cache_times, now, lock_dict, locks_made, idle_timers>>

\* main.py:933-938 clear_queue
clear_queue(s) == [s EXCEPT !.queue = <<>>, !.current_track = NoTrack]

\* main.py:1286-1306: leave_voice run by the handle_idle task itself. The
\* task it cancels at line 1302 is the running one, so the CancelledError is
\* raised at the next suspension, inside "await voice_client.disconnect()":
\* the call does not return, and how much of the disconnect was done by then
\* is the library's business.
IdleLeave(g) ==
    /\ timeout_tasks[g] = "sending"
    /\ IF ~voice[g].conn
       THEN Apply([Cur EXCEPT !.timeout_tasks[g] = "finished"])
       ELSE \E still \in BOOLEAN :
              LET s1 == clear_queue(StopPlayer(Cur, g))
              IN  Apply([CancelTimer(s1, g) EXCEPT
                                   !.teardown[g] = "interrupted",
                                   !.voice[g] = IF still THEN @ ELSE NoPlayer])

\* --------------------------------------------------------------- commands
\* QueueEntry(url, title, requester_id, info): a new entry, numbered in the
\* order the entries are created
NewEntry(s, u, g) == [s EXCEPT !.entries = Append(@, [url |-> u, g |-> g])]
NewId(s) == Len(s.entries) + 1

\* the "Join if needed" of play, playnext and playlist (main.py:1366-1369)
JoinIfNeeded(s, g) ==
    IF s.voice[g].conn THEN s ELSE [s EXCEPT !.voice[g] = Joined]

Idle(v) == ~IsPlaying(v) /\ ~IsPaused(v)

\* main.py:1340-1379: play, up to the await of extract_info_fast
Play(g, u, lim) ==
    /\ cmds < lim
    /\ Apply(Spawn(JoinIfNeeded([Cur EXCEPT !.cmds = @ + 1], g),
                   Tk("play_extract", g, NoTrack, 0, 0, u)))

\* main.py:1379-1414: the extraction returns; append; play_next when idle
AfterPlayExtract(s, t) ==
    UNION { IF ok
            THEN LET n == NewId(s)
                     s1 == [NewEntry(s, t.f, t.g) EXCEPT
                               !.info = @ \cup {n},
                               !.queue = QueueAppend(@, n)]
                 IN  IF Idle(s1.voice[t.g])
                     THEN play_next(s1, t.g, 0, 0)
                     ELSE {s1}
            ELSE {s}
            : ok \in BOOLEAN }

PlayExtracted ==
    \E t \in BagToSet(tasks) :
        /\ t.pc = "play_extract"
        /\ \E s \in AfterPlayExtract(Without(Cur, t), t) : Apply(s)

\* main.py:1418-1482: playnext with a url, up to the await of the extraction
PlayNextUrl(g, u, lim) ==
    /\ cmds < lim
    /\ Apply(Spawn(JoinIfNeeded([Cur EXCEPT !.cmds = @ + 1], g),
                   Tk("playnext_extract", g, NoTrack, 0, 0, u)))

\* main.py:1482-1517: insert at the front; play_next when idle
AfterPlayNextExtract(s, t) ==
    UNION { IF ok
            THEN LET n == NewId(s)
                     s1 == [NewEntry(s, t.f, t.g) EXCEPT
                               !.info = @ \cup {n},
                               !.queue = QueueInsertFront(@, n)]
                 IN  IF Idle(s1.voice[t.g])
                     THEN play_next(s1, t.g, 0, 0)
                     ELSE {s1}
            ELSE {s}
            : ok \in BOOLEAN }

PlayNextExtracted ==
    \E t \in BagToSet(tasks) :
        /\ t.pc = "playnext_extract"
        /\ \E s \in AfterPlayNextExtract(Without(Cur, t), t) : Apply(s)

\* main.py:1428-1459: playnext with a queue position p. Only a string of
\* digits reaches this branch, so p >= 0.
AfterPlayNextPos(s, g, p) ==
    LET s0 == JoinIfNeeded(s, g)
    IN  IF s0.queue = <<>> \/ p < 1 \/ p > Len(s0.queue)
        THEN s0
        ELSE StopPlayer(
                 [s0 EXCEPT !.queue =
                     QueueInsertFront(QueueRemoveAt(@, p), s0.queue[p])],
                 g)

PlayNextPos(g, p) ==
    /\ voice[g].conn
    /\ Apply(AfterPlayNextPos(Cur, g, p))

\* the playnext command received with position t.f runs
PlayNextPosRun ==
    \E t \in BagToSet(tasks) :
        /\ t.pc = "pnp_start"
        /\ Apply(AfterPlayNextPos(Without(Cur, t), t.g, t.f))

\* ------------------------------------------------------------------ titles
\* A title is the sequence of its characters.
UpperCase ==
    <<"A", "B", "C", "D", "E", "F", "G", "H", "I", "J", "K", "L", "M", "N",
      "O", "P", "Q", "R", "S", "T", "U", "V", "W", "X", "Y", "Z">>
LowerCase ==
    <<"a", "b", "c", "d", "e", "f", "g", "h", "i", "j", "k", "l", "m", "n",
      "o", "p", "q", "r", "s", "t", "u", "v", "w", "x", "y", "z">>

\* str.lower() on the letters A to Z
LowerChar(c) ==
    IF \E i \in 1 .. Len(UpperCase) : UpperCase[i] = c
    THEN LowerCase[CHOOSE i \in 1 .. Len(UpperCase) : UpperCase[i] = c]
    ELSE c

Lower(title) == [i \in 1 .. Len(title) |-> LowerChar(title[i])]

\* the first position of character c in title, 0 when there is none
IndexOf(title, c) ==
    IF \E i \in 1 .. Len(title) : title[i] = c
    THEN CHOOSE i \in 1 .. Len(title) :
             title[i] = c /\ \A j \in 1 .. i - 1 : title[j] # c
    ELSE 0

Drop(title, n) == SubSeq(title, n + 1, Len(title))

\* main.py:764-765: re.sub of an opening character, anything but the closing
\* one, and the closing character, by nothing
RECURSIVE RemoveGroups(_, _, _)
RemoveGroups(title, open, close) ==
    IF title = <<>>
    THEN <<>>
    ELSE IF Head(title) = open /\ IndexOf(Tail(title), close) # 0
         THEN RemoveGroups(Drop(Tail(title), IndexOf(Tail(title), close)),
                           open, close)
         ELSE <<Head(title)>> \o RemoveGroups(Tail(title), open, close)

StartsWith(title, word) ==
    /\ Len(title) >= Len(word)
    /\ SubSeq(title, 1, Len(word)) = word

\* main.py:769: title.replace(word, '')
RECURSIVE RemoveWord(_, _)
RemoveWord(title, word) ==
    IF title = <<>>
    THEN <<>>
    ELSE IF StartsWith(title, word)
         THEN RemoveWord(Drop(title, Len(word)), word)
         ELSE <<Head(title)>> \o RemoveWord(Tail(title), word)

\* main.py:767
remove_words ==
    <<<<"o", "f", "f", "i", "c", "i", "a", "l">>,
      <<"m", "u", "s", "i", "c">>,
      <<"v", "i", "d", "e", "o">>,
      <<"a", "u", "d", "i", "o">>,
      <<"l", "y", "r", "i", "c">>,
      <<"l", "y", "r", "i", "c", "s">>,
      <<"h", "d">>,
      <<"h", "q">>,
      <<"r", "e", "m", "a", "s", "t", "e", "r">>,
      <<"r", "e", "m", "a", "s", "t", "e", "r", "e", "d">>>>

\* main.py:768-769: the words are removed one after the other, in this order
RECURSIVE RemoveWords(_, _)
RemoveWords(title, ws) ==
    IF ws = <<>> THEN title ELSE RemoveWords(RemoveWord(title, Head(ws)), Tail(ws))

\* main.py:771: the hyphen, the en dash, the em dash and the bar
Separators == {"-", "en dash", "em dash", "|"}

WholeTitle(title) == title
\* main.py:771-773: re.split on the separators, then the last part
LastPart(title) ==
    IF \E i \in 1 .. Len(title) : title[i] \in Separators
    THEN Drop(title, CHOOSE i \in 1 .. Len(title) :
                         /\ title[i] \in Separators
                         /\ \A j \in i + 1 .. Len(title) :
                                title[j] \notin Separators)
    ELSE title

\* main.py:775: ' '.join(title.split())
RECURSIVE JoinWords(_)
JoinWords(title) ==
    IF title = <<>>
    THEN <<>>
    ELSE IF Head(title) = " "
              /\ (Len(title) = 1 \/ title[2] = " ")
         THEN JoinWords(Tail(title))
         ELSE <<Head(title)>> \o JoinWords(Tail(title))

RECURSIVE StripLeft(_)
StripLeft(title) ==
    IF title # <<>> /\ Head(title) = " " THEN StripLeft(Tail(title)) ELSE title

\* main.py:759-776
normalize_title_for_comparison(title) ==
    LET lowered == Lower(title)
        bare == RemoveGroups(RemoveGroups(lowered, "(", ")"), "[", "]")
        cut == RemoveWords(bare, remove_words)
    IN  JoinWords(StripLeft(LastPart(cut)))

\* the titles of the videos that searches and playlists return
Catalogue ==
    <<<<"S", "o", "n", "g", " ", "T", "i", "t", "l", "e", " ", "(", "O",
        "f", "f", "i", "c", "i", "a", "l", " ", "V", "i", "d", "e", "o",
        ")">>,
      <<"A", "r", "t", "i", "s", "t", " ", "-", " ", "S", "o", "n", "g",
        " ", "T", "i", "t", "l", "e", " ", "[", "L", "y", "r", "i", "c",
        "s", "]">>,
      <<"O", "t", "h", "e", "r", " ", "S", "o", "n", "g">>,
      <<"S", "O", "N", "G", " ", "T", "I", "T", "L", "E", " ", "H", "D">>,
      <<"A", "r", "t", "i", "s", "t", " ", "|", " ", "O", "t", "h", "e",
        "r", " ", "S", "o", "n", "g", " ", "(", "R", "e", "m", "a", "s",
        "t", "e", "r", "e", "d", ")">>,
      <<"S", "o", "n", "g", " ", "-", " ", "T", "i", "t", "l", "e">>>>

\* the decimal digits of n
RECURSIVE Digits(_)
Digits(n) ==
    LET d == <<"0", "1", "2", "3", "4", "5", "6", "7", "8", "9">>[(n % 10) + 1]
    IN  IF n < 10 THEN <<d>> ELSE Digits(n \div 10) \o <<d>>

\* The title of video u: the videos numbered from 101 are those of the
\* Catalogue, every other video is called "track" and its number.
TitleOf(u) ==
    IF u - 100 \in DOMAIN Catalogue
    THEN Catalogue[u - 100]
    ELSE <<"t", "r", "a", "c", "k", " ">> \o Digits(u)

\* the videos of the first NumTitles titles of the Catalogue
NamedVideos == {100 + i : i \in 1 .. NumTitles}

\* the normalized titles of the named videos, computed once
NormalizedNamed ==
    [u \in NamedVideos |-> normalize_title_for_comparison(TitleOf(u))]

\* the normalized titles of the videos a full queue holds, computed once
NormalizedQueued ==
    [u \in 1 .. QueueLimit |-> normalize_title_for_comparison(TitleOf(u))]

\* the normalized title of video u
Normalized(u) ==
    IF u \in NamedVideos
    THEN NormalizedNamed[u]
    ELSE IF u \in DOMAIN NormalizedQueued
         THEN NormalizedQueued[u]
         ELSE normalize_title_for_comparison(TitleOf(u))

\* main.py:778-785: a queued entry has the same normalized title as video u
is_duplicate_in_queue(s, u) ==
    LET normalized_new == Normalized(u)
    IN  \E i \in 1 .. Len(s.queue) :
            Normalized(s.entries[s.queue[i]].url) = normalized_new

\* main.py:1661-1681 (and 1588-1612): the loop that appends the results
RECURSIVE AddAll(_, _, _)
AddAll(s, res, g) ==
    IF res = <<>>
    THEN s
    ELSE IF is_duplicate_in_queue(s, Head(res))
         THEN AddAll(s, Tail(res), g)
         ELSE AddAll([NewEntry(s, Head(res), g) EXCEPT
                         !.queue = QueueAppend(@, NewId(s))],
                     Tail(res), g)

ResultLists ==
    UNION {[1 .. n -> NamedVideos] : n \in 1 .. MaxList}

\* main.py:1520-1645: playlist, up to the await of the search / extraction
Playlist(g, lim) ==
    /\ cmds < lim
    /\ Apply(Spawn(JoinIfNeeded([Cur EXCEPT !.cmds = @ + 1], g),
                   Tk("pl_fetch", g, NoTrack, 0, 0, 0)))

\* main.py:1661-1694 (and 1586-1623): the entries res are appended; the reply
\* when nothing was added, the summary message otherwise
PlaylistAdded(s, s1, res, g) ==
    IF Len(s1.queue) = Len(s.queue)
    THEN Spawn(s1, Tk("pl_none", g, NoTrack, 0, 0, res))
    ELSE Spawn(s1, Tk("pl_send", g, NoTrack, 0, 0, 0))

\* main.py:1647-1694: the entries of the playlist arrive; the queue limit is
\* checked against their number, the warning of a shortened list is awaited,
\* and the entries are appended
AfterPlaylistFetch(s, t) ==
    { LET current_queue_size == Len(s.queue)
          allowed == QueueLimit - current_queue_size
      IN  IF current_queue_size + Len(res) > QueueLimit
          THEN IF allowed <= 0
               THEN Spawn(s, Tk("pl_full", t.g, NoTrack, 0, 0, 0))
               ELSE Spawn(s, Tk("pl_warn", t.g, NoTrack, 0, 0,
                                SubSeq(res, 1, allowed)))
          ELSE PlaylistAdded(s, AddAll(s, res, t.g), res, t.g)
      : res \in ResultLists }

PlaylistFetched ==
    \E t \in BagToSet(tasks) :
        /\ t.pc = "pl_fetch"
        /\ \E s \in AfterPlaylistFetch(Without(Cur, t), t) : Apply(s)

\* main.py:1659-1681: the warning is sent; the shortened list t.f is appended
AfterPlaylistWarn(s, t) == PlaylistAdded(s, AddAll(s, t.f, t.g), t.f, t.g)

PlaylistWarned ==
    \E t \in BagToSet(tasks) :
        /\ t.pc = "pl_warn"
        /\ Apply(AfterPlaylistWarn(Without(Cur, t), t))

\* main.py:1576-1577, 1656-1657: the reply "Queue is full" is sent
PlaylistFullSent ==
    \E t \in BagToSet(tasks) :
        /\ t.pc = "pl_full"
        /\ Apply(Without(Cur, t))

\* main.py:1562-1582: playlist <words> max_songs, up to the await of the
\* search or of the warning; the queue limit is checked here
PlaylistSearch(g, max_songs, lim) ==
    /\ cmds < lim
    /\ LET s == JoinIfNeeded([Cur EXCEPT !.cmds = @ + 1], g)
           current_queue_size == Len(s.queue)
           target_songs == QueueLimit - current_queue_size
       IN  IF current_queue_size + max_songs > QueueLimit
           THEN IF target_songs <= 0
                THEN Apply(Spawn(s, Tk("pl_full", g, NoTrack, 0, 0, 0)))
                ELSE Apply(Spawn(s, Tk("pls_warn", g, NoTrack, 0, 0,
                                       target_songs)))
           ELSE Apply(Spawn(s, Tk("pl_search", g, NoTrack, 0, 0, max_songs)))

\* main.py:1578-1582: the warning is sent; the search is awaited
PlaylistSearchWarned ==
    \E t \in BagToSet(tasks) :
        /\ t.pc = "pls_warn"
        /\ Apply(Spawn(Without(Cur, t),
                       Tk("pl_search", t.g, NoTrack, 0, 0, t.f)))

\* main.py:1588-1612: the results are appended, the duplicates skipped,
\* until target_songs - added_count is 0
RECURSIVE AddUpTo(_, _, _, _)
AddUpTo(s, res, g, left) ==
    IF res = <<>> \/ left <= 0
    THEN s
    ELSE IF is_duplicate_in_queue(s, Head(res))
         THEN AddUpTo(s, Tail(res), g, left)
         ELSE AddUpTo([NewEntry(s, Head(res), g) EXCEPT
                          !.queue = QueueAppend(@, NewId(s))],
                      Tail(res), g, left - 1)

\* main.py:1582-1623: the results of the search arrive (none: "No results
\* found" is sent) and are appended
AfterPlaylistSearch(s, t) ==
    { PlaylistAdded(s, AddUpTo(s, res, t.g, t.f), res, t.g)
      : res \in ResultLists \cup {<<>>} }

PlaylistSearched ==
    \E t \in BagToSet(tasks) :
        /\ t.pc = "pl_search"
        /\ \E s \in AfterPlaylistSearch(Without(Cur, t), t) : Apply(s)

\* main.py:1683-1688: the reply when nothing was added, for the results t.f
PlaylistNoneSent ==
    \E t \in BagToSet(tasks) :
        /\ t.pc = "pl_none"
        /\ Apply(Without(Cur, t))

\* main.py:1696-1698
AfterPlaylistSend(s, t) ==
    IF Idle(s.voice[t.g]) THEN play_next(s, t.g, 0, 0) ELSE {s}

PlaylistSent ==
    \E t \in BagToSet(tasks) :
        /\ t.pc = "pl_send"
        /\ \E s \in AfterPlaylistSend(Without(Cur, t), t) : Apply(s)

\* main.py:1992-2018: restart, up to the awaits of ctx.send and sleep(0.5)
Restart(g, lim) ==
    /\ cmds < lim
    /\ voice[g].conn
    /\ current_track # NoTrack
    /\ LET s0 == StopPlayer([Cur EXCEPT !.cmds = @ + 1], g)
           s1 == [NewEntry(s0, entries[current_track].url,
                           entries[current_track].g) EXCEPT
                     !.queue = QueueInsertFront(@, NewId(s0))]
       IN  Apply(Spawn(s1, Tk("rs_wait", g, NoTrack, 0, 0, 0)))

\* main.py:2019
AfterRestartWait(s, t) == play_next(s, t.g, 0, 0)

RestartWaited ==
    \E t \in BagToSet(tasks) :
        /\ t.pc = "rs_wait"
        /\ \E s \in AfterRestartWait(Without(Cur, t), t) : Apply(s)

\* main.py:1777-1783
Skip(g) ==
    /\ ~Idle(voice[g])
    /\ Apply(StopPlayer(Cur, g))

AfterSkipNothing(s, t) == {Spawn(s, Tk("skip_done", t.g, NoTrack, 0, 0, 0))}

\* main.py:1776-1783: skip, up to the await of its ctx.send
AfterSkipStart(s, t) ==
    IF s.voice[t.g].conn /\ ~Idle(s.voice[t.g])
    THEN {Spawn(StopPlayer(s, t.g), Tk("skip_done", t.g, NoTrack, 0, 0, 0))}
    ELSE {Spawn(s, Tk("skip_none", t.g, NoTrack, 0, 0, 0))}

SkipRun ==
    \E t \in BagToSet(tasks) :
        /\ t.pc = "skip_start"
        /\ \E s \in AfterSkipStart(Without(Cur, t), t) : Apply(s)

\* the reply of skip has been sent
SkipSent ==
    \E t \in BagToSet(tasks) :
        /\ t.pc \in {"skip_done", "skip_none"}
        /\ Apply(Without(Cur, t))

\* main.py:1786-1792
Pause(g) ==
    /\ IsPlaying(voice[g])
    /\ Apply([Cur EXCEPT !.voice[g].st = "paused"])

\* main.py:1795-1801
ResumeCmd(g) ==
    /\ IsPaused(voice[g])
    /\ Apply([Cur EXCEPT !.voice[g].st = "playing"])

\* main.py:1804-1825: stop
Stop(g) ==
    /\ voice[g].conn
    /\ LET s1 == StopPlayer([Cur EXCEPT !.queue = <<>>], g)
       IN  Apply([s1 EXCEPT !.voice[g] = NoPlayer])

\* main.py:1288-1306: leave_voice, called by the leave command
leave_voice(s, g) ==
    LET s1 == clear_queue(StopPlayer(s, g))
    IN  [CancelTimer(s1, g) EXCEPT !.voice[g] = NoPlayer]

\* main.py:1326-1333
Leave(g) ==
    /\ voice[g].conn
    /\ Apply(leave_voice(Cur, g))

\* ------------------------------------------- the extraction has returned
\* The coroutine t waits in extract_info for ytdl (run_in_executor), which has
\* returned an info dict with the formats t.f.formats; t.f.force and
\* t.f.force_fragmented are the values FORCE_DOWNLOAD and
\* FORCE_DOWNLOAD_FRAGMENTED are set to at the top of main.py.
\* main.py:219-226 and 1083-1100
AfterInfoDelivered(s, t) ==
    LET m == StreamInfoOf(t.f.formats)
    IN  Route([s EXCEPT !.info = @ \cup {t.e}], t.g, t.e, t.failed, t.notices,
              Decision(t.f.force, t.f.force_fragmented, m), m.stream_url)

InfoDelivered ==
    \E t \in BagToSet(tasks) :
        /\ t.pc = "pa_extracted"
        /\ \E s \in AfterInfoDelivered(Without(Cur, t), t) : Apply(s)

\* main_efficient.py:68-76 and 219-223
AfterInfoDeliveredEfficient(s, t) ==
    LET sel == select_format_efficient(t.f.formats)
    IN  Route(s, t.g, t.e, t.failed, t.notices,
              _needs_download(t.f.formats) \/ sel.is_fragmented
                  \/ sel.url = NoUrl,
              sel.url # NoUrl)

InfoDeliveredEfficient ==
    \E t \in BagToSet(tasks) :
        /\ t.pc = "ef_extracted"
        /\ \E s \in AfterInfoDeliveredEfficient(Without(Cur, t), t) : Apply(s)

\* audio_manager.py:21-26 and bot_main.py:64-78; force_download_fragments is
\* set nowhere, so params.get gives True
AfterEntryInfoDelivered(s, t) ==
    LET sel == select_best_format(t.f.formats)
    IN  Route(s, t.g, t.e, t.failed, t.notices,
              sel.url = NoUrl \/ _detect_sabr(t.f.formats) \/ sel.is_fragmented,
              sel.url # NoUrl)

EntryInfoDelivered ==
    \E t \in BagToSet(tasks) :
        /\ t.pc = "pe_extracted"
        /\ \E s \in AfterEntryInfoDelivered(Without(Cur, t), t) : Apply(s)

\* ------------------------------------------------------- shuffle, remove
\* A command that has been received: its handler is scheduled on the loop
\* and has not run yet. arg is its argument, 0 when it has none.
Received(cmd, arg) == Tk(cmd, 1, NoTrack, 0, 0, arg)

SwapLossy(q, a, b) == [q EXCEPT ![a] = q[b]]
\* x[i], x[j] = x[j], x[i]
Swap(q, a, b) == [q EXCEPT ![a] = q[b], ![b] = q[a]]

\* The values randbelow(i + 1) is let to return: of the i + 1 possible ones
\* the least and the greatest.
Draws(i) == {0, i}

\* random.shuffle(x): for i in reversed(range(1, len(x))): j = randbelow(i + 1);
\* swap x[i] and x[j]. Shuffles(q, i) are the lists the remaining steps
\* i, i - 1, ..., 1 (0-based) can make of q.
RECURSIVE Shuffles(_, _)
Shuffles(q, i) ==
    IF i < 1
    THEN {q}
    ELSE UNION {Shuffles(Swap(q, i + 1, j + 1), i - 1) : j \in Draws(i)}

\* main.py:1741-1758: shuffle, up to the await of its ctx.send
AfterShuffleStart(s, t) ==
    IF s.queue = <<>> \/ Len(s.queue) < ShuffleMin
    THEN {Spawn(s, Tk("sh_error", t.g, NoTrack, 0, 0, 0))}
    ELSE {Spawn([s EXCEPT !.queue = q], Tk("sh_done", t.g, NoTrack, 0, 0, 0))
          : q \in Shuffles(s.queue, Len(s.queue) - 1)}

ShuffleRun ==
    \E t \in BagToSet(tasks) :
        /\ t.pc = "sh_start"
        /\ \E s \in AfterShuffleStart(Without(Cur, t), t) : Apply(s)

\* the reply of shuffle has been sent
ShuffleSent ==
    \E t \in BagToSet(tasks) :
        /\ t.pc \in {"sh_error", "sh_done"}
        /\ Apply(Without(Cur, t))

\* main.py:1716-1731: remove, up to the await of its ctx.send; t.f is the
\* position the user gave
AfterRemoveStart(s, t) ==
    IF s.queue = <<>> \/ t.f - 1 < 0 \/ t.f - 1 >= Len(s.queue)
    THEN {Spawn(s, Tk("rm_error", t.g, NoTrack, 0, 0, t.f))}
    ELSE {Spawn([s EXCEPT !.queue = QueueRemoveAt(@, t.f)],
                Tk("rm_done", t.g, s.queue[t.f], 0, 0, t.f))}

RemoveRun ==
    \E t \in BagToSet(tasks) :
        /\ t.pc = "rm_start"
        /\ \E s \in AfterRemoveStart(Without(Cur, t), t) : Apply(s)

\* the reply of remove has been sent
RemoveSent ==
    \E t \in BagToSet(tasks) :
        /\ t.pc \in {"rm_error", "rm_done"}
        /\ Apply(Without(Cur, t))

\* ------------------------------------------------------- the info cache
\* d[k] = v and del d[k] on a dict
DictSet(d, k, v) ==
    [u \in DOMAIN d \cup {k} |-> IF u = k THEN v ELSE d[u]]
DictDel(d, k) == [u \in DOMAIN d \ {k} |-> d[u]]
\* d.get(k, default)
DictGet(d, k, default) == IF k \in DOMAIN d THEN d[k] ELSE default

\* what a call of extract_info_fast(url) gave its caller at time at: the
\* info dict info (None when it returned None), from the cache or not
None == -1
Returned(url, i, cached, at) ==
    Tk("xf_returned", 1, NoTrack, 0, 0,
       [url |-> url, info |-> i, cached |-> cached, at |-> at])

\* main.py:237: the else branch of cache_age < CACHE_DURATION
Stale(age) == ~(age < CACHE_DURATION)

\* main.py:234-248: extract_info_fast(url) up to its return from the cache,
\* the KeyError of line 243, or the await of the extraction
extract_info_fast(s, url) ==
    IF url \in DOMAIN s.info_cache
    THEN LET cache_age == s.now - DictGet(s.cache_times, url, 0)
         IN  IF ~Stale(cache_age)
             THEN Spawn(s, Returned(url, s.info_cache[url], TRUE, s.now))
             ELSE LET s1 == [s EXCEPT !.info_cache = DictDel(@, url)]
                  IN  IF url \in DOMAIN s1.cache_times
                      THEN Spawn([s1 EXCEPT !.cache_times = DictDel(@, url)],
                                 Tk("xf_fast", 1, NoTrack, 0, 0, url))
                      ELSE Spawn(s1, Tk("xf_raised", 1, NoTrack, 0, 0, url))
    ELSE Spawn(s, Tk("xf_fast", 1, NoTrack, 0, 0, url))

\* a coroutine calls extract_info_fast(u): play, playnext, play_audio or the
\* preload (main.py:398, 1072, 1379, 1482)
FastCall(u, lim) ==
    /\ cmds < lim
    /\ Apply(extract_info_fast([Cur EXCEPT !.cmds = @ + 1], u))

\* main.py:246-267: ytdl_fast.extract_info returns an info dict or None, or
\* raises for an unavailable video, or raises something else
AfterFastExtraction(s, t) ==
    { CASE r = "info" ->
             Spawn([s EXCEPT !.info_cache = DictSet(@, t.f, s.now),
                             !.cache_times = DictSet(@, t.f, s.now)],
                   Returned(t.f, s.now, FALSE, s.now))
        [] r = "error" -> Spawn(s, Tk("xf_fallback", 1, NoTrack, 0, 0, t.f))
        [] OTHER -> Spawn(s, Returned(t.f, None, FALSE, s.now))
      : r \in {"info", "none", "unavailable", "error"} }

FastExtractionDone ==
    \E t \in BagToSet(tasks) :
        /\ t.pc = "xf_fast"
        /\ \E s \in AfterFastExtraction(Without(Cur, t), t) : Apply(s)

\* main.py:267 and 216-230: extract_info(url) returns an info dict or None
AfterFallback(s, t) ==
    { Spawn(s, Returned(t.f, IF ok THEN s.now ELSE None, FALSE, s.now))
      : ok \in BOOLEAN }

FallbackDone ==
    \E t \in BagToSet(tasks) :
        /\ t.pc = "xf_fallback"
        /\ \E s \in AfterFallback(Without(Cur, t), t) : Apply(s)

\* the caller goes on with what extract_info_fast returned
ResultTaken ==
    \E t \in BagToSet(tasks) :
        /\ t.pc = "xf_returned"
        /\ Apply(Without(Cur, t))

\* The moments at which something happens: the multiples of CACHE_DURATION,
\* the second before and the second after each.
Moments ==
    {m \in 0 .. MaxTime :
        m % CACHE_DURATION \in {0, 1, CACHE_DURATION - 1}}

\* time passes until the moment m
Tick(m) ==
    /\ m > now
    /\ Apply([Cur EXCEPT !.now = m])

\* ------------------------------------------------------ get_queue_display
\* A line of the message: f"{number}. {entry.title}" for entry e, and the
\* line f"... {number} more songs ..."
Line(number, e) == [kind |-> "entry", number |-> number, e |-> e]
More(number) == [kind |-> "more", number |-> number, e |-> NoTrack]

\* main.py:915-931. enumerate(xs) counts from 0 and enumerate(xs, start=k)
\* from k; the number printed is i + 1. An empty queue gives the one
\* sentence that it is empty, here no line.
get_queue_display(q) ==
    LET queue_length == Len(q)
    IN  IF q = <<>>
        THEN <<>>
        ELSE IF queue_length <= ShowAll
             THEN [k \in 1 .. queue_length |-> Line((k - 1) + 1, q[k])]
             ELSE [k \in 1 .. ShowFirst |-> Line((k - 1) + 1, q[k])]
                  \o <<More(queue_length - 20)>>
                  \o [k \in 1 .. ShowLast |->
                         Line(((queue_length - 4) + (k - 1)) + 1,
                              q[queue_length - ShowLast + k])]

\* main.py:1706-1708: the queue command, up to the await of its ctx.send;
\* t.f of the sending coroutine is the message
AfterShowQueue(s, t) ==
    {Spawn(s, Tk("qd_send", t.g, NoTrack, 0, 0, get_queue_display(s.queue)))}

ShowQueue ==
    \E t \in BagToSet(tasks) :
        /\ t.pc = "qd_start"
        /\ \E s \in AfterShowQueue(Without(Cur, t), t) : Apply(s)

\* the message has been sent
QueueShown ==
    \E t \in BagToSet(tasks) :
        /\ t.pc = "qd_send"
        /\ Apply(Without(Cur, t))

\* ---------------------------------------------------------- get_guild_lock
\* a get_guild_lock that makes a new lock at every call
get_guild_lock_anew(s, g) ==
    LET s1 == [s EXCEPT !.lock_dict = DictSet(@, g, s.locks_made + 1),
                        !.locks_made = @ + 1]
    IN  [state |-> s1, lock |-> s1.lock_dict[g]]

\* main.py:940-944, main_efficient.py:151-155, queue_manager.py:52-56. The
\* coroutine has no await inside: the test and the store run in one piece.
\* The result is the state after the call and the lock returned.
get_guild_lock(s, g) ==
    LET s1 == IF g \notin DOMAIN s.lock_dict
              THEN [s EXCEPT !.lock_dict = DictSet(@, g, s.locks_made + 1),
                             !.locks_made = @ + 1]
              ELSE s
    IN  [state |-> s1, lock |-> s1.lock_dict[g]]

\* a coroutine of guild g calls `await get_guild_lock(guild_id)` and holds
\* the lock object it was given, without having used it yet
LockCall(g, lim) ==
    /\ cmds < lim
    /\ LET r == get_guild_lock([Cur EXCEPT !.cmds = @ + 1], g)
       IN  Apply(Spawn(r.state, Tk("gl_got", g, NoTrack, 0, 0, r.lock)))

\* such a coroutine enters and leaves its `async with`
LockUsed ==
    \E t \in BagToSet(tasks) :
        /\ t.pc = "gl_got"
        /\ Apply(Without(Cur, t))

\* ------------------------------------ main_efficient.py and bot_main.py
\* The engine of the two smaller entry points: play_next and play_audio of
\* main_efficient.py, play_next_in_queue and play_entry of bot_main.py. They
\* differ in the test after a failure; the model names them after bot_main.
\* main_efficient.py:220 and bot_main.py:74-78
should_download(m) == ~m.stream_url \/ m.flagged \/ m.is_fragmented

\* the `async with` of play_next ends: the guild lock is released
ReleaseLock(s, g) == [s EXCEPT !.locks[g] = FALSE]

\* `async with await get_guild_lock(guild_id)` while the lock is held: the
\* call waits until the lock is free
AwaitLock(s, g) == Spawn(s, Tk("pe_lock", g, NoTrack, 0, 0, 0))

\* the same wait in the play_next called by play, whose frame holds the
\* entry e that the command has just appended
AwaitLockFrom(s, g, e) == Spawn(s, Tk("pe_lock", g, e, 0, 0, 0))

\* main_efficient.py:283-287 and bot_main.py:143-146: play_audio returned
\* False inside the `async with`. The nested call of play_next asks for the
\* lock that its caller holds.
EntryFailed(s, g, e) ==
    LET s1 == [s EXCEPT !.info = @ \ {e}]
    IN  IF s1.program = "bot_main" \/ s1.queue # <<>>
        THEN AwaitLock(s1, g)
        ELSE ReleaseLock(s1, g)

\* main_efficient.py:230-248 and bot_main.py:88-101: voice_client.play; an
\* exception is reported with ctx.send
EntryTryPlay(s, g, e, f) ==
    { IF ffmpeg /\ CanPlay(s.voice[g])
      THEN Spawn([s EXCEPT !.voice[g] =
                      [conn |-> TRUE, st |-> "playing", e |-> e, f |-> f],
                           !.info = @ \ {e},
                           !.started = Append(@, e)],
                 Tk("pe_send_playing", g, NoTrack, 0, 0, 0))
      ELSE Spawn(s, Tk("pe_send_fail", g, e, 0, 0, 0))
      : ffmpeg \in BOOLEAN }

\* main_efficient.py:219-248 and bot_main.py:71-101: entry.info is set
EntryAfterInfo(s, g, e) ==
    UNION { IF should_download(m)
            THEN {Spawn(s, Tk("pe_download", g, e, 0, 0, 0))}
            ELSE EntryTryPlay(s, g, e, 0)
            : m \in StreamInfo }

\* main_efficient.py:203-216 and bot_main.py:55-68, up to the first
\* suspension. play sets entry.info before it queues the entry, so the
\* extraction here is for entries that no command of these programs makes.
play_entry(s, g, e) ==
    IF ~s.voice[g].conn
    THEN {EntryFailed(s, g, e)}
    ELSE LET s1 == [s EXCEPT !.current_track = e]
         IN  IF e \notin s.info
             THEN {Spawn(s1, Tk("pe_extract", g, e, 0, 0, 0))}
             ELSE EntryAfterInfo(s1, g, e)

\* main_efficient.py:266-287 and bot_main.py:121-146, up to the first
\* suspension; retry_scheduled of bot_main is set nowhere
play_next_in_queue(s, g) ==
    IF s.locks[g]
    THEN {AwaitLock(s, g)}
    ELSE LET s1 == CancelTimer([s EXCEPT !.locks[g] = TRUE], g)
         IN  IF s1.queue = <<>>
             THEN {ReleaseLock(TimerCreate(s1, g), g)}
             ELSE LET e == QueueHead(s1.queue)
                      s2 == [s1 EXCEPT !.queue = QueuePop(@),
                                       !.dequeued = Append(@, e)]
                  IN  play_entry(s2, g, e)

\* a play_next waiting for the guild lock gets it
EntryLockAcquired ==
    \E t \in BagToSet(tasks) :
        /\ t.pc = "pe_lock"
        /\ ~locks[t.g]
        /\ \E s \in play_next_in_queue(Without(Cur, t), t.g) : Apply(s)

\* main_efficient.py:114-128, 227-238 and audio_manager.py:88-101,
\* bot_main.py:86-93: the file is played when it exists; without a file
\* play_audio returns False and sends nothing
AfterDownloadAndPrepare(s, t) ==
    LET f == s.entries[t.e].url
    IN  UNION {
          IF r = "none"
          THEN {EntryFailed(s, t.g, t.e)}
          ELSE LET s1 == [s EXCEPT !.fs = WriteFile(@, f, r),
                                   !.downloaded_files = @ \cup {f},
                                   !.attemptFiles = @ \cup {f}]
               IN  IF Exists(s1.fs, f)
                   THEN EntryTryPlay(s1, t.g, t.e, f)
                   ELSE {EntryFailed(s1, t.g, t.e)}
          : r \in IF HasRoom(s.fs, f) THEN {"ok", "small", "none"}
                                       ELSE {"none"} }

EntryDownloadDone ==
    \E t \in BagToSet(tasks) :
        /\ t.pc = "pe_download"
        /\ \E s \in AfterDownloadAndPrepare(Without(Cur, t), t) : Apply(s)

\* the ctx.send of "Playback failed" returns; play_audio returns False
EntrySendFailDone ==
    \E t \in BagToSet(tasks) :
        /\ t.pc = "pe_send_fail"
        /\ Apply(EntryFailed(Without(Cur, t), t.g, t.e))

\* the ctx.send of "Now playing" returns; play_audio returns True and
\* play_next leaves its `async with`
EntrySendPlayingDone ==
    \E t \in BagToSet(tasks) :
        /\ t.pc = "pe_send_playing"
        /\ Apply(ReleaseLock(Without(Cur, t), t.g))

\* main_efficient.py:343-365 and bot_main.py:201-227: play, up to the await
\* of extract_info
EntryPlay(g, u, lim) ==
    /\ cmds < lim
    /\ Apply(Spawn(JoinIfNeeded([Cur EXCEPT !.cmds = @ + 1], g),
                   Tk("pe_play_extract", g, NoTrack, 0, 0, u)))

\* main_efficient.py:366-381 and bot_main.py:228-243: the extraction
\* returns; append; play_next unless the voice client is playing
AfterEntryPlayExtract(s, t) ==
    UNION { IF ok
            THEN LET n == NewId(s)
                     s1 == [NewEntry(s, t.f, t.g) EXCEPT
                               !.info = @ \cup {n},
                               !.queue = QueueAppend(@, n)]
                 IN  IF ~IsPlaying(s1.voice[t.g])
                     THEN IF s1.locks[t.g]
                          THEN {AwaitLockFrom(s1, t.g, n)}
                          ELSE play_next_in_queue(s1, t.g)
                     ELSE {s1}
            ELSE {s}
            : ok \in BOOLEAN }

EntryPlayExtracted ==
    \E t \in BagToSet(tasks) :
        /\ t.pc = "pe_play_extract"
        /\ \E s \in AfterEntryPlayExtract(Without(Cur, t), t) : Apply(s)

\* ------------------------------------------------------------------- specs
\* The bot, run from the entry point p, has just joined the voice channel of
\* guild 1 (main.py:1313-1318).
Fresh(p) ==
    /\ queue = <<>>
    /\ current_track = NoTrack
    /\ entries = <<>>
    /\ info = {}
    /\ downloaded_files = {}
    /\ fs = {}
    /\ locks = [g \in Guilds |-> FALSE]
    /\ timeout_tasks = [g \in Guilds |-> "none"]
    /\ voice = [g \in Guilds |-> IF g = 1 THEN Joined ELSE NoPlayer]
    /\ tasks = EmptyBag
    /\ cmds = 0
    /\ dequeued = <<>>
    /\ started = <<>>
    /\ attemptFiles = {}
    /\ teardown = [g \in Guilds |-> "none"]
    /\ program = p
    /\ NoCache

Init == Fresh("main")

\* the steps of the engine on entries that carry their info, as those of play
Engine ==
    \/ DownloadDone
    \/ SendFailDone
    \/ SendPlayingDone
    \/ NoticeDone
    \/ SleepDone
    \/ SummaryDone
    \/ CleanupDone
    \/ FinishedSleepDone
    \/ PreloadStart

\* the steps of the engine on entries queued without info (playlist, restart)
Resolve ==
    \/ ExtractDone
    \/ PreloadExtractDone
    \/ PreloadDownloadDone

\* Spec: one guild; play, restart and the commands that control playback
Next ==
    \/ Engine
    \/ Resolve
    \/ LockAcquired
    \/ TrackEnds(1)
    \/ IdleElapsed(1)
    \/ IdleLeave(1)
    \/ \E u \in CmdUrls : Play(1, u, MaxCmds)
    \/ PlayExtracted
    \/ Restart(1, MaxCmds)
    \/ RestartWaited
    \/ Skip(1)
    \/ Pause(1)
    \/ ResumeCmd(1)
    \/ Stop(1)
    \/ Leave(1)

Spec == Init /\ [][Next]_vars

\* SpecFifo: one guild; play, of one video, is the only command
NextFifo ==
    \/ Engine
    \/ LockAcquired
    \/ TrackEnds(1)
    \/ IdleElapsed(1)
    \/ IdleLeave(1)
    \/ Play(1, 1, MaxPlays)
    \/ PlayExtracted

SpecFifo == Init /\ [][NextFifo]_vars

\* SpecGuilds: two guilds use the bot; play, of one video, is the only command
NextGuilds ==
    \/ Engine
    \/ LockAcquired
    \/ \E g \in Guilds : TrackEnds(g)
    \/ \E g \in Guilds : IdleElapsed(g)
    \/ \E g \in Guilds : IdleLeave(g)
    \/ \E g \in Guilds : Play(g, 1, MaxPlays)
    \/ PlayExtracted

SpecGuilds == Init /\ [][NextGuilds]_vars

\* SpecPass: one call of play_next on a queue of n entries that a playlist
\* command has just appended (main.py:1661-1698), in guild 1; the track it
\* starts, if any, keeps playing.
PassStart(n) ==
    /\ queue = [i \in 1 .. n |-> i]
    /\ current_track = NoTrack
    /\ entries = [i \in 1 .. n |-> [url |-> i, g |-> 1]]
    /\ info = {}
    /\ downloaded_files = {}
    /\ fs = {}
    /\ locks = [g \in Guilds |-> FALSE]
    /\ timeout_tasks = [g \in Guilds |-> "none"]
    /\ voice = [g \in Guilds |-> IF g = 1 THEN Joined ELSE NoPlayer]
    /\ tasks = SetToBag({Tk("pl_send", 1, NoTrack, 0, 0, 0)})
    /\ cmds = 1
    /\ dequeued = <<>>
    /\ started = <<>>
    /\ attemptFiles = {}
    /\ teardown = [g \in Guilds |-> "none"]
    /\ program = "main"
    /\ NoCache

InitPass == \E n \in 1 .. MaxPass : PassStart(n)

NextPass ==
    \/ PlaylistSent
    \/ ExtractDone
    \/ DownloadDone
    \/ SendFailDone
    \/ SendPlayingDone
    \/ NoticeDone
    \/ SleepDone
    \/ SummaryDone
    \/ PreloadStart
    \/ PreloadExtractDone
    \/ PreloadDownloadDone
    \/ IdleElapsed(1)
    \/ IdleLeave(1)

SpecPass == InitPass /\ [][NextPass]_vars

\* SpecPassFair: SpecPass in which every suspended coroutine of the pass is
\* resumed in the end, as the event loop does once its await completes.
SpecPassFair ==
    /\ SpecPass
    /\ WF_vars(PlaylistSent)
    /\ WF_vars(ExtractDone)
    /\ WF_vars(DownloadDone)
    /\ WF_vars(SendFailDone)
    /\ WF_vars(SendPlayingDone)
    /\ WF_vars(NoticeDone)
    /\ WF_vars(SleepDone)
    /\ WF_vars(SummaryDone)

\* SpecDrain: a queue of up to MaxDrain entries appended by a playlist command
\* is played to its end: the tracks started complete and playback_finished
\* calls play_next again, until the queue is empty.
InitDrain == \E n \in 1 .. MaxDrain : PassStart(n)

NextDrain ==
    \/ NextPass
    \/ TrackEnds(1)
    \/ CleanupDone
    \/ FinishedSleepDone

SpecDrain == InitDrain /\ [][NextDrain]_vars

\* SpecFail: as SpecDrain, and the player thread may fail in the middle of a
\* track with an error of any kind.
NextFail ==
    \/ NextDrain
    \/ TrackFails(1)

SpecFail == InitDrain /\ [][NextFail]_vars

\* A session in which a playlist command appended n + 1 entries, the first
\* of them was downloaded and is playing, the other n are queued, the preload
\* of the next one found nothing, and the command cmd has just been received.
SessionOf(n, ts) ==
    /\ queue = [i \in 1 .. n |-> i + 1]
    /\ current_track = 1
    /\ entries = [i \in 1 .. n + 1 |-> [url |-> i, g |-> 1]]
    /\ info = {}
    /\ downloaded_files = {1}
    /\ fs = {<<1, "ok">>}
    /\ locks = [g \in Guilds |-> FALSE]
    /\ timeout_tasks = [g \in Guilds |-> "none"]
    /\ voice = [g \in Guilds |->
                  IF g = 1 THEN [conn |-> TRUE, st |-> "playing", e |-> 1, f |-> 1]
                  ELSE NoPlayer]
    /\ tasks = ts
    /\ cmds = 1
    /\ dequeued = <<1>>
    /\ started = <<1>>
    /\ attemptFiles = {1}
    /\ teardown = [g \in Guilds |-> "none"]
    /\ program = "main"
    /\ NoCache

Session(n, cmd) == SessionOf(n, SetToBag({cmd}))

\* SpecPreload: a track has just started with n entries queued, its preload
\* task has been created, and one remove or shuffle command has been
\* received (shuffle needs ShuffleMin entries). The track may end, and
\* play_next then dequeues the head and tries it; what follows a failure of
\* that entry is left out, and a track started then keeps playing.
FirstTrackEnds ==
    /\ started = <<1>>
    /\ TrackEnds(1)

InitPreload ==
    \/ \E n \in 0 .. MaxList : \E p \in 1 .. n + 1 :
           SessionOf(n, SetToBag({Received("rm_start", p),
                                  Tk("pre_start", 1, NoTrack, 0, 0, 0)}))
    \/ SessionOf(ShuffleMin, SetToBag({Received("sh_start", 0),
                                       Tk("pre_start", 1, NoTrack, 0, 0, 0)}))

NextPreload ==
    \/ PreloadStart
    \/ PreloadExtractDone
    \/ PreloadDownloadDone
    \/ RemoveRun
    \/ RemoveSent
    \/ ShuffleRun
    \/ ShuffleSent
    \/ FirstTrackEnds
    \/ CleanupDone
    \/ FinishedSleepDone
    \/ ExtractDone
    \/ DownloadDone
    \/ SendFailDone
    \/ SendPlayingDone

SpecPreload == InitPreload /\ [][NextPreload]_vars

\* SpecShuffle: one shuffle command on a queue of 0 .. MaxQueue entries
InitShuffle == \E n \in 0 .. MaxQueue : Session(n, Received("sh_start", 0))

NextShuffle ==
    \/ ShuffleRun
    \/ ShuffleSent

SpecShuffle == InitShuffle /\ [][NextShuffle]_vars

\* SpecRemove: one remove command, with a position from -1 to one past the
\* end, on a queue of 0 .. MaxQueue entries
InitRemove ==
    \E n \in 0 .. MaxQueue : \E p \in -1 .. n + 1 :
        Session(n, Received("rm_start", p))

NextRemove ==
    \/ RemoveRun
    \/ RemoveSent

SpecRemove == InitRemove /\ [][NextRemove]_vars

\* SpecPlayNext: one playnext command, with a position from 0 to one past the
\* end or with a url, arrives at any time while a queue of 0 .. MaxList
\* entries is played to its end. The preloads, which read the queue and never
\* change it, are left suspended.
InitPlayNext ==
    \E n \in 0 .. MaxList :
        \/ \E p \in 0 .. n + 1 : Session(n, Received("pnp_start", p))
        \/ \E u \in CmdUrls : Session(n, Received("playnext_extract", u))

NextPlayNext ==
    \/ PlayNextPosRun
    \/ PlayNextExtracted
    \/ LockAcquired
    \/ TrackEnds(1)
    \/ CleanupDone
    \/ FinishedSleepDone
    \/ ExtractDone
    \/ DownloadDone
    \/ SendFailDone
    \/ SendPlayingDone
    \/ NoticeDone
    \/ SleepDone
    \/ SummaryDone
    \/ IdleElapsed(1)
    \/ IdleLeave(1)

SpecPlayNext == InitPlayNext /\ [][NextPlayNext]_vars

\* SpecPlaylist: playlist commands that return lists of the named videos;
\* the entries a command dequeues stay in their extraction
InitPlaylist == Init

NextPlaylist ==
    \/ Playlist(1, MaxCmds)
    \/ PlaylistFetched
    \/ PlaylistNoneSent
    \/ PlaylistSent

SpecPlaylist == InitPlaylist /\ [][NextPlaylist]_vars

\* SpecSkip: one skip command arrives at any time while a queue of
\* 0 .. MaxList entries is played to its end, the track being paused and
\* resumed at will. The preloads are left suspended. The event loop resumes
\* every coroutine that is ready, and the awaited downloads, sleeps and sends
\* return, so each of these steps is weakly fair; nothing makes a track end,
\* a user pause or resume, or the idle timer fire.
InitSkip == \E n \in 0 .. MaxList : Session(n, Received("skip_start", 0))

NextSkip ==
    \/ SkipRun
    \/ SkipSent
    \/ Pause(1)
    \/ ResumeCmd(1)
    \/ TrackEnds(1)
    \/ CleanupDone
    \/ FinishedSleepDone
    \/ ExtractDone
    \/ DownloadDone
    \/ SendFailDone
    \/ SendPlayingDone
    \/ NoticeDone
    \/ SleepDone
    \/ SummaryDone
    \/ IdleElapsed(1)
    \/ IdleLeave(1)

SpecSkip ==
    /\ InitSkip
    /\ [][NextSkip]_vars
    /\ WF_vars(SkipRun)
    /\ WF_vars(SkipSent)
    /\ WF_vars(CleanupDone)
    /\ WF_vars(FinishedSleepDone)
    /\ WF_vars(ExtractDone)
    /\ WF_vars(DownloadDone)
    /\ WF_vars(SendFailDone)
    /\ WF_vars(SendPlayingDone)
    /\ WF_vars(NoticeDone)
    /\ WF_vars(SleepDone)
    /\ WF_vars(SummaryDone)

\* SpecInfo: in main.py, under each setting of the two download policies, the
\* extraction of the one entry that was dequeued returns an info dict; the
\* formats are a pair of candidates, or a list of up to MaxFormats formats of
\* six kinds.
Bitrates == {0, 128, 320, 999}

Format(url, acodec, fragments, base, protocol, live, abr) ==
    [url |-> url, acodec |-> acodec, fragments |-> fragments,
     fragment_base_url |-> base, protocol |-> protocol, live |-> live,
     abr |-> abr]

\* candidates with a url and an audio codec, called url
Candidates(url) ==
    {Format(url, TRUE, fr, base, pr, live, abr) :
        fr \in BOOLEAN, base \in BOOLEAN, pr \in {"https", "", "m3u8", "dash"},
        live \in BOOLEAN, abr \in Bitrates}

\* a progressive and a fragmented candidate, in either order
Pairs ==
    UNION {{<<n, f>>, <<f, n>>} :
              n \in {c \in Candidates("n") : ~_is_fragmented(c)},
              f \in {c \in Candidates("f") : _is_fragmented(c)}}

\* the six kinds: with or without url, with or without audio codec when
\* there is a url, progressive or fragmented
Kinds ==
    <<Format(NoUrl, TRUE, FALSE, FALSE, "https", FALSE, 128),
      Format(NoUrl, TRUE, TRUE, FALSE, "https", FALSE, 128),
      Format("a", TRUE, FALSE, FALSE, "https", FALSE, 128),
      Format("b", TRUE, FALSE, FALSE, "m3u8", FALSE, 128),
      Format("c", FALSE, FALSE, FALSE, "https", FALSE, 0),
      Format("d", FALSE, FALSE, FALSE, "dash", FALSE, 0)>>

Repeat(f, n) == [i \in 1 .. n |-> f]

\* the lists made of c[k] formats of kind k, kind after kind
RECURSIVE Listed(_, _)
Listed(c, k) ==
    IF k = 0 THEN <<>> ELSE Listed(c, k - 1) \o Repeat(Kinds[k], c[k])

Mixes ==
    {Listed(<<c1, c2, c3, c4, c5, n - c1 - c2 - c3 - c4 - c5>>, 6) :
        <<n, c1, c2, c3, c4, c5>> \in
            {x \in (0 .. MaxFormats) \X (0 .. MaxFormats) \X (0 .. MaxFormats)
                     \X (0 .. MaxFormats) \X (0 .. MaxFormats)
                     \X (0 .. MaxFormats) :
                x[2] + x[3] + x[4] + x[5] + x[6] <= x[1]}}

Extracted(pc, formats, force, force_fragmented) ==
    Tk(pc, 1, 1, 0, 0,
       [formats |-> formats, force |-> force,
        force_fragmented |-> force_fragmented])

InfoStart(t) ==
    /\ queue = <<>>
    /\ current_track = 1
    /\ entries = <<[url |-> 1, g |-> 1]>>
    /\ info = {}
    /\ downloaded_files = {}
    /\ fs = {}
    /\ locks = [g \in Guilds |-> FALSE]
    /\ timeout_tasks = [g \in Guilds |-> "none"]
    /\ voice = [g \in Guilds |-> IF g = 1 THEN Joined ELSE NoPlayer]
    /\ tasks = SetToBag({t})
    /\ cmds = 1
    /\ dequeued = <<1>>
    /\ started = <<>>
    /\ attemptFiles = {}
    /\ teardown = [g \in Guilds |-> "none"]
    /\ program = CASE t.pc = "ef_extracted" -> "main_efficient"
                   [] t.pc = "pe_extracted" -> "bot_main"
                   [] OTHER -> "main"
    /\ NoCache

InitInfo ==
    \E formats \in Pairs \cup Mixes :
        \E force \in BOOLEAN, force_fragmented \in BOOLEAN :
            InfoStart(Extracted("pa_extracted", formats, force,
                                force_fragmented))

NextInfo == InfoDelivered

SpecInfo == InitInfo /\ [][NextInfo]_vars

\* SpecSelect: the same in each of the three programs: main.py as it is set
\* up, main_efficient.py, and bot_main.py with audio_manager.py
InitSelect ==
    \E formats \in Pairs \cup Mixes :
        \/ InfoStart(Extracted("pa_extracted", formats, FORCE_DOWNLOAD,
                               FORCE_DOWNLOAD_FRAGMENTED))
        \/ InfoStart(Extracted("ef_extracted", formats, FALSE, TRUE))
        \/ InfoStart(Extracted("pe_extracted", formats, FALSE, TRUE))

NextSelect ==
    \/ InfoDelivered
    \/ InfoDeliveredEfficient
    \/ EntryInfoDelivered

SpecSelect == InitSelect /\ [][NextSelect]_vars

\* SpecTies: main.py and bot_main.py with audio_manager.py receive an info
\* dict of up to MaxCandidates formats, the i-th of which is called Names[i]
\* when it has a url; formats of the same protocol and bitrate score the same.
Names == <<"x", "y", "z", "w">>

Slot(u) ==
    {Format(u, TRUE, FALSE, FALSE, pr, FALSE, abr) :
        pr \in {"https", "dash"}, abr \in {0, 128}}
    \cup {Format(NoUrl, TRUE, FALSE, FALSE, "https", FALSE, 128),
          Format(u, FALSE, FALSE, FALSE, "https", FALSE, 128)}

TieLists ==
    UNION {{formats \in [1 .. n -> UNION {Slot(Names[i]) : i \in 1 .. n}] :
               \A i \in 1 .. n : formats[i] \in Slot(Names[i])}
           : n \in 0 .. MaxCandidates}

InitTies ==
    \E formats \in TieLists :
        \/ InfoStart(Extracted("pa_extracted", formats, FORCE_DOWNLOAD,
                               FORCE_DOWNLOAD_FRAGMENTED))
        \/ InfoStart(Extracted("pe_extracted", formats, FALSE, TRUE))

NextTies ==
    \/ InfoDelivered
    \/ EntryInfoDelivered

SpecTies == InitTies /\ [][NextTies]_vars

\* SpecRestart: entry 1 is playing with 0 .. MaxList entries queued, and one
\* restart command arrives; the player thread's callback and the command's
\* own call of play_next run in either order. No track ends by itself.
InitRestart == \E n \in 0 .. MaxList : SessionOf(n, EmptyBag)

NextRestart ==
    \/ Restart(1, MaxCmds)
    \/ RestartWaited
    \/ CleanupDone
    \/ FinishedSleepDone
    \/ LockAcquired
    \/ ExtractDone
    \/ DownloadDone
    \/ SendFailDone
    \/ SendPlayingDone
    \/ NoticeDone
    \/ SleepDone
    \/ SummaryDone

SpecRestart == InitRestart /\ [][NextRestart]_vars

\* SpecDisplay: one queue command on a queue of 0 .. MaxShown entries
InitDisplay == \E n \in 0 .. MaxShown : Session(n, Received("qd_start", 0))

NextDisplay ==
    \/ ShowQueue
    \/ QueueShown

SpecDisplay == InitDisplay /\ [][NextDisplay]_vars

\* SpecLocks: coroutines of two guilds call get_guild_lock, in main.py or in
\* bot_main.py with queue_manager.py, and use the lock later, in any order.
InitLocks == \E p \in {"main", "bot_main"} : Fresh(p)

NextLocks ==
    \/ \E g \in Guilds : LockCall(g, MaxLockCalls)
    \/ LockUsed

SpecLocks == InitLocks /\ [][NextLocks]_vars

\* SpecEntry: main_efficient.py or bot_main.py in one guild; play is the
\* only command. Every call of play_next follows an append and takes at most
\* one entry, so none finds the queue empty and the idle timer is not armed.
InitEntry == \E p \in {"main_efficient", "bot_main"} : Fresh(p)

NextEntry ==
    \/ \E u \in CmdUrls : EntryPlay(1, u, MaxPlays)
    \/ EntryPlayExtracted
    \/ EntryLockAcquired
    \/ EntryDownloadDone
    \/ EntrySendFailDone
    \/ EntrySendPlayingDone
    \/ TrackEnds(1)

SpecEntry == InitEntry /\ [][NextEntry]_vars

\* SpecEntryFair: the same, where the event loop resumes every coroutine that
\* is ready and the awaited extractions, downloads and sends return. Nothing
\* makes a user play something or a track end.
SpecEntryFair ==
    /\ SpecEntry
    /\ WF_vars(EntryPlayExtracted)
    /\ WF_vars(EntryLockAcquired)
    /\ WF_vars(EntryDownloadDone)
    /\ WF_vars(EntrySendFailDone)
    /\ WF_vars(EntrySendPlayingDone)

\* SpecCache: up to MaxCalls calls of extract_info_fast, for the videos of
\* CmdUrls, made and answered at the Moments
NextCache ==
    \/ \E u \in CmdUrls : FastCall(u, MaxCalls)
    \/ FastExtractionDone
    \/ FallbackDone
    \/ ResultTaken
    \/ \E m \in Moments : Tick(m)

SpecCache == Init /\ [][NextCache]_vars

\* ------------------------------------------------------------------ claims
\* The playback attempts of guild g that are in progress: the calls of
\* play_audio that have not returned, and the track its voice client holds.
Resolving == {"pa_extract", "pa_download", "pa_send_fail"}

Attempts(g) ==
    LET S == {t \in BagToSet(tasks) : t.g = g /\ t.pc \in Resolving}
    IN  BagCardinality([t \in S |-> CopiesIn(t, tasks)])
        + (IF Idle(voice[g]) THEN 0 ELSE 1)

\* C1: a guild never has two playback attempts in progress at once, whatever
\* the interleaving of the commands and the completion callbacks.
C1_OneAttemptAtATime == \A g \in Guilds : Attempts(g) <= 1

\* A call of play_next is under way in guild g, or about to be made by a
\* command or a completion callback that has already been scheduled.
PassPcs ==
    {"pl_send", "rs_wait", "pn_lock", "pn_notice", "pn_sleep", "pn_summary",
     "pa_extract", "pa_download", "pa_send_fail", "pf_cleanup", "pf_sleep"}

PassUnderWay(g) == \E t \in BagToSet(tasks) : t.g = g /\ t.pc \in PassPcs

\* The pass of play_next whose suspended coroutine is t has ended: its
\* play_audio has handed a track to the voice client, or it found the queue
\* empty after failures.
Playing(t) == t.pc = "pa_send_playing"
Exhausted(t) == t.pc = "pn_summary"

\* C2: a pass of play_next goes on to the next entry after every failure,
\* until an entry plays or the queue is empty: the one track it starts is the
\* entry that follows the failed ones, nothing is left queued when it gives
\* up, and it never halts with entries queued and nothing playing.
C2_SkipAhead ==
    /\ \A t \in BagToSet(tasks) :
          /\ Playing(t) =>
                /\ started = <<t.failed + 1>>
                /\ dequeued = [i \in 1 .. t.failed + 1 |-> i]
          /\ Exhausted(t) =>
                /\ started = <<>>
                /\ queue = <<>>
                /\ t.failed = Len(entries)
                /\ dequeued = [i \in 1 .. Len(entries) |-> i]
    /\ \A g \in Guilds :
          queue # <<>> /\ Idle(voice[g]) /\ entries[Head(queue)].g = g
              => PassUnderWay(g)

\* six entries failed and the seventh is playing
C2_SeventhPlays ==
    /\ \E t \in BagToSet(tasks) : Playing(t) /\ t.failed = 6
    /\ started = <<7>>
    /\ IsPlaying(voice[1])

\* C3: with play as the only command, the queue is at every moment a
\* contiguous suffix of the sequence of the entries appended so far, and the
\* entries are dequeued in the order in which they were appended.
C3_Fifo ==
    /\ queue = [i \in 1 .. Len(queue) |-> Len(entries) - Len(queue) + i]
    /\ \A i, j \in 1 .. Len(dequeued) : i < j => dequeued[i] < dequeued[j]

\* the first entry is playing and the next two wait in the order of arrival
C3_TwoWaiting ==
    /\ queue = <<2, 3>>
    /\ dequeued = <<1>>
    /\ IsPlaying(voice[1])

\* No coroutine of guild g is suspended: every command and callback has run
\* to its end.
Quiescent(g) == \A t \in BagToSet(tasks) : t.g # g

\* main.py:1241: the handle_idle task of guild g has not ended
TimerPending(g) == timeout_tasks[g] \in {"sleeping", "sending"}

\* C4: in a guild the bot is connected to, once an entry has been dequeued
\* and the commands and callbacks have run, the idle timer is pending if and
\* only if the queue is empty and no track is resolving, playing or paused.
C4_TimerIffIdle ==
    \A g \in Guilds :
        voice[g].conn /\ Quiescent(g) /\ dequeued # <<>>
        /\ teardown[g] = "none"
            => (TimerPending(g) <=> (queue = <<>> /\ Idle(voice[g])))

\* C5: the teardown that handle_idle starts when the idle delay has elapsed
\* runs to completion: leave_voice returns from its disconnect step.
C5_IdleTeardownCompletes ==
    \A g \in Guilds : teardown[g] \in {"none", "completed"}

\* C6: once every attempt has ended and every callback has run, every file
\* that download_audio produced for an attempt has been removed.
C6_AttemptFilesRemoved ==
    (\A g \in Guilds : Quiescent(g) /\ Idle(voice[g]))
        => attemptFiles = {}

\* C7: an entry enqueued by a command of one guild is resolved and played
\* only by that guild.
C7_GuildsApart ==
    /\ \A t \in BagToSet(tasks) :
          t.pc \in Resolving => entries[t.e].g = t.g
    /\ \A g \in Guilds :
          voice[g].e # NoTrack => entries[voice[g].e].g = g

\* C8: when the bot has left every voice channel and every callback has been
\* processed, the queue is empty, current_track is None and no idle timer is
\* pending.
C8_EmptyAfterLeaving ==
    (tasks = EmptyBag /\ \A g \in Guilds : ~voice[g].conn)
        => /\ queue = <<>>
           /\ current_track = NoTrack
           /\ \A g \in Guilds : ~TimerPending(g)

\* The batched notices due in a pass that has seen n failures, when one is
\* due at every failure count k with k % period = phase.
NoticesBy(n, period, phase) ==
    Cardinality({k \in 1 .. n : k % period = phase})

C10_NoticeCounts ==
    \A t \in BagToSet(tasks) :
        Playing(t) \/ Exhausted(t) =>
            /\ t.failed = 5 => t.notices = 1
            /\ t.failed = 10 => t.notices = 2

\* a pass over ten entries has found none playable
C10_TenFailed ==
    \E t \in BagToSet(tasks) :
        Exhausted(t) /\ t.failed = 10 /\ t.notices = 2 /\ Len(entries) = 10

\* play_audio is sending the message of one entry's failure (main.py:1080,
\* 1117, 1123, 1129, 1151, 1173, 1177, 1180).
SendingOwnFailure(t) == t.pc = "pa_send_fail"

\* C11: a failed entry produces no message of its own: no coroutine is ever
\* sending one; the only failure messages are the batched notices and the
\* final summary.
C11_NoMessagePerFailure ==
    \A t \in BagToSet(tasks) : ~SendingOwnFailure(t)

\* The entry handed last to a voice client, 0 when none was.
LastStarted == IF started = <<>> THEN 0 ELSE started[Len(started)]

\* C12: a summary is sent only by a pass that ends with the queue empty after
\* at least one failure, its count is the number of entries that failed in
\* that pass, and the idle timer is armed after it; a pass that finds the
\* queue empty without a failure sends none and arms the idle timer.
C12_SummaryThenTimer ==
    /\ \A t \in BagToSet(tasks) :
          Exhausted(t) =>
              /\ t.failed >= 1
              /\ t.failed = Len(dequeued) - LastStarted
              /\ queue = <<>>
              /\ ~TimerPending(t.g)
    /\ \A g \in {1} :
          (/\ ~PassUnderWay(g)
           /\ \A t \in BagToSet(tasks) : ~Playing(t)
           /\ Idle(voice[g]) /\ voice[g].conn
           /\ teardown[g] = "none")
              => TimerPending(g)

\* the first entry was played and the two after it failed: the summary of
\* the two has been sent and the idle timer runs
C12_SummarySentTimerArmed ==
    /\ started = <<1>>
    /\ dequeued = <<1, 2, 3>>
    /\ ~PassUnderWay(1)
    /\ Idle(voice[1])
    /\ timeout_tasks[1] = "sleeping"

\* The queue of a Session before the command it received has run.
Original == [i \in 1 .. Len(entries) - 1 |-> i + 1]

\* how often entry e occurs in the list q
Occurrences(q, e) == Cardinality({i \in 1 .. Len(q) : q[i] = e})

PlaybackUntouched ==
    /\ voice[1] = [conn |-> TRUE, st |-> "playing", e |-> 1, f |-> 1]
    /\ current_track = 1
    /\ dequeued = <<1>>
    /\ started = <<1>>
    /\ \A t \in BagToSet(tasks) : t.pc \in {"rm_start", "rm_error", "rm_done"}

\* C14: remove(position) with 1 <= position <= length removes exactly the
\* entry at that position, reports it and keeps the order of the others; any
\* other position, or an empty queue, is an error that leaves the queue
\* unchanged; playback is neither started, stopped nor skipped.
C14_RemoveExactlyThat ==
    /\ PlaybackUntouched
    /\ \A t \in BagToSet(tasks) :
          /\ t.pc = "rm_start" => queue = Original
          /\ t.pc = "rm_error" =>
                /\ ~(1 <= t.f /\ t.f <= Len(Original))
                /\ queue = Original
          /\ t.pc = "rm_done" =>
                /\ 1 <= t.f /\ t.f <= Len(Original)
                /\ t.e = Original[t.f]
                /\ Len(queue) = Len(Original) - 1
                /\ \A i \in 1 .. Len(queue) :
                      queue[i] = IF i < t.f THEN Original[i] ELSE Original[i + 1]

\* the third of five queued entries has been removed
C14_ThirdOfFiveRemoved ==
    /\ Len(Original) = 5
    /\ queue = <<2, 3, 5, 6>>
    /\ \E t \in BagToSet(tasks) : t.pc = "rm_done" /\ t.f = 3 /\ t.e = 4

\* the suspended coroutines at pc that resume in this step
Resuming(pc) ==
    {t \in BagToSet(tasks) : t.pc = pc /\ CopiesIn(t, tasks') < CopiesIn(t, tasks)}

\* the list q with its entry at position p moved to the front
MovedToFront(q, p) == <<q[p]>> \o SubSeq(q, 1, p - 1) \o SubSeq(q, p + 1, Len(q))

\* a step of playnext with position p
PlayNextPosStep(p) ==
    IF 1 <= p /\ p <= Len(queue)
    THEN /\ queue' = MovedToFront(queue, p)
         /\ Idle(voice'[1])
         /\ dequeued' = dequeued
    ELSE /\ queue' = queue
         /\ voice'[1].st = voice[1].st
         /\ voice'[1].e = voice[1].e
         /\ dequeued' = dequeued
         /\ started' = started

\* a step of playnext with a url, when the extraction gave an entry
PlayNextUrlStep ==
    Len(entries') > Len(entries) =>
        LET n == Len(entries')
        IN  \/ queue' = <<n>> \o queue /\ dequeued' = dequeued
            \/ queue' = queue /\ dequeued' = Append(dequeued, n)

\* a step of anything else changes the queue only by taking its head
OtherStep ==
    \/ queue' = queue /\ dequeued' = dequeued
    \/ /\ queue # <<>>
       /\ queue' = Tail(queue)
       /\ dequeued' = Append(dequeued, Head(queue))
    \/ queue' = <<>> /\ dequeued' = dequeued /\ timeout_tasks[1] = "sending"

\* C15: playnext with a url puts the new entry at the front, the others keep
\* their order, and it is the next entry dequeued; playnext with a valid
\* position moves that entry to the front and stops the current track, so it
\* is the next entry dequeued; an invalid position or an empty queue leaves
\* the queue and the playback as they were.
C15_PlayNextGoesFirst ==
    [][/\ \A t \in Resuming("pnp_start") : PlayNextPosStep(t.f)
       /\ \A t \in Resuming("playnext_extract") : PlayNextUrlStep
       /\ (Resuming("pnp_start") \cup Resuming("playnext_extract") = {})
              => OtherStep]_vars

\* with 2 and 3 queued, playnext 2 made entry 3 the one played after entry 1
C15_SecondPlayedNext ==
    /\ Len(entries) = 3
    /\ dequeued = <<1, 3>>
    /\ started = <<1, 3>>
    /\ queue = <<2>>

\* the normalized title of the entry at position i of the queue
QueuedTitle(i) == Normalized(entries[queue[i]].url)

Queued(u) == \E i \in 1 .. Len(queue) : entries[queue[i]].url = u

\* C16: a bulk enqueue appends a candidate only if its normalized title
\* differs from that of every entry then in the queue, those appended earlier
\* by the same command included, so no two queued entries have the same
\* normalized title; 'Song Title (Official Video)' and
\* 'Artist - Song Title [Lyrics]' both normalize to 'song title', and the
\* second is never queued with the first.
C16_NoDuplicateTitles ==
    /\ \A i, j \in 1 .. Len(queue) : QueuedTitle(i) = QueuedTitle(j) => i = j
    /\ Normalized(101) = <<"s", "o", "n", "g", " ", "t", "i", "t", "l", "e">>
    /\ Normalized(102) = Normalized(101)
    /\ ~(Queued(101) /\ Queued(102))

\* with 'Song Title (Official Video)' queued, a playlist that returned
\* 'Artist - Song Title [Lyrics]' added nothing
C16_LyricsRejected ==
    /\ Len(queue) = 1
    /\ Queued(101)
    /\ \E t \in BagToSet(tasks) : t.pc = "pl_none" /\ t.f = <<102>>

\* a skip command has arrived while a track plays or is paused and entry h is
\* the head of the queue
SkipArrives(h) ==
    /\ \E t \in BagToSet(tasks) : t.pc = "skip_start"
    /\ ~Idle(voice[1])
    /\ queue # <<>>
    /\ Head(queue) = h

\* entry h was dequeued, and it became the playing track or its attempt failed
Advanced(h) ==
    /\ \E i \in 1 .. Len(dequeued) : dequeued[i] = h
    /\ \/ \E i \in 1 .. Len(started) : started[i] = h
       \/ \A t \in BagToSet(tasks) : t.e # h

\* a step of skip
SkipStep ==
    IF Idle(voice[1])
    THEN UNCHANGED <<queue, current_track, entries, info, downloaded_files, fs,
                     locks, timeout_tasks, voice, cmds, dequeued, started,
                     attemptFiles, teardown, program,
          info_cache, cache_times, now, lock_dict, locks_made, idle_timers>>
    ELSE /\ Idle(voice'[1])
         /\ \E t \in BagToSet(tasks') : t.pc \in {"pf_cleanup", "pf_sleep"}

Delivered ==
    {t.f.formats : t \in {x \in BagToSet(tasks) :
                             x.pc \in {"pa_extracted", "ef_extracted",
                                       "pe_extracted"}}}

\* two candidates, the progressive one called "n", the fragmented one "f"
IsPair(formats) ==
    /\ Len(formats) = 2
    /\ {formats[1].url, formats[2].url} = {"n", "f"}

\* C18: of two candidates with url and audio codec, one progressive and one
\* fragmented, with bitrates from 0 to 999 and in either order, each of the
\* three selectors returns the progressive one.
C18_PrefersProgressive ==
    \A formats \in Delivered :
        IsPair(formats) =>
            /\ select_format(formats).url = "n"
            /\ select_format_efficient(formats).url = "n"
            /\ select_best_format(formats).url = "n"

\* the flag as the claim states it
FlagAsStated(formats) ==
    \/ WithUrl(formats) = 0
    \/ 4 * WithUrl(formats) < Len(formats)
    \/ /\ \E i \in 1 .. Len(formats) : Qualifies(formats[i])
       /\ \A i \in 1 .. Len(formats) :
             Qualifies(formats[i]) => _is_fragmented(formats[i])

\* C19: for a list of formats that is not empty, the flag of main.py and the
\* flag of audio_manager.py are true exactly when no format has a url, or
\* four times the formats with a url are fewer than all formats, or there are
\* formats with a url and an audio codec and every one of them is fragmented.
C19_FlagAsStated ==
    \A formats \in Delivered :
        Len(formats) > 0 =>
            /\ _needs_download(formats) = FlagAsStated(formats)
            /\ _detect_sabr(formats) = FlagAsStated(formats)

\* a step of play_audio on the info dict that coroutine t receives
DecisionStep(t) ==
    LET m == StreamInfoOf(t.f.formats)
        stated == \/ t.f.force
                  \/ (t.f.force_fragmented /\ m.is_fragmented)
                  \/ ~m.stream_url
                  \/ m.flagged
        downloads == \E x \in BagToSet(tasks') : x.pc = "pa_download"
        streams == \/ IsPlaying(voice'[1]) /\ voice'[1].f = 0
                   \/ \E x \in BagToSet(tasks') : x.pc = "pa_send_fail"
    IN  /\ downloads <=> stated
        /\ streams <=> ~stated
        /\ streams => m.stream_url

\* C20: play_audio materializes exactly when FORCE_DOWNLOAD, or
\* FORCE_DOWNLOAD_FRAGMENTED and the selected format is fragmented, or no
\* stream url was selected, or the metadata is flagged; it streams exactly
\* when that is false, and then a stream url exists.
C20_DecisionAsStated ==
    [][\A t \in Resuming("pa_extracted") : DecisionStep(t)]_vars

\* with both policies off, a progressive format was streamed
C20_Streamed ==
    /\ IsPlaying(voice[1])
    /\ voice[1].f = 0
    /\ started = <<1>>

\* the step hands to the voice client of guild g a source read from a file
HandsFile(g) ==
    /\ voice'[g] # voice[g]
    /\ IsPlaying(voice'[g])
    /\ voice'[g].f # 0
    /\ Len(started') > Len(started)

\* a step of main.py or main_efficient.py as C21 has it
VerifiedStep ==
    program \in {"main", "main_efficient"} =>
        /\ \A g \in Guilds :
              HandsFile(g) => /\ Exists(fs', voice'[g].f)
                              /\ BigEnough(fs', voice'[g].f)
        /\ \A t \in Resuming("pa_download") \cup Resuming("pe_download") :
              ~BigEnough(fs', entries[t.e].url) =>
                  /\ started' = started
                  /\ voice' = voice

\* C21: the voice client is handed a local file only when that file exists
\* and is at least 1000 bytes long; after a download that left no file or a
\* smaller one, the step of play_audio starts no playback and the attempt
\* fails. This is so in main.py and in main_efficient.py.
C21_FileVerifiedBeforePlay == [][VerifiedStep]_vars

\* the results that calls of extract_info_fast have returned
Results == {t.f : t \in {x \in BagToSet(tasks) : x.pc = "xf_returned"}}

\* this step returns to the caller the info dict extracted just now for u
Extracts(u) ==
    CopiesIn(Returned(u, now, FALSE, now), tasks')
        > CopiesIn(Returned(u, now, FALSE, now), tasks)

\* this step is a call of extract_info_fast(u) that finds an entry for u
\* stored at least CACHE_DURATION ago
FindsOld(u) ==
    /\ cmds' = cmds + 1
    /\ u \in DOMAIN info_cache
    /\ now - DictGet(cache_times, u, 0) >= CACHE_DURATION
    /\ \E t \in BagToSet(tasks') :
          /\ CopiesIn(t, tasks') > CopiesIn(t, tasks)
          /\ IF t.pc = "xf_returned" THEN t.f.url = u ELSE t.f = u

\* a step of the cache as C22 has it
CacheStep ==
    /\ \A u \in CmdUrls :
          FindsOld(u) =>
              /\ u \notin DOMAIN info_cache'
              /\ u \notin DOMAIN cache_times'
              /\ CopiesIn(Tk("xf_fast", 1, NoTrack, 0, 0, u), tasks')
                     > CopiesIn(Tk("xf_fast", 1, NoTrack, 0, 0, u), tasks)
    /\ \A t \in Resuming("xf_fast") \cup Resuming("xf_fallback") :
          IF Extracts(t.f)
          THEN /\ t.f \in DOMAIN info_cache' /\ info_cache'[t.f] = now
               /\ t.f \in DOMAIN cache_times' /\ cache_times'[t.f] = now
          ELSE info_cache' = info_cache /\ cache_times' = cache_times

\* C22: a call of extract_info_fast returns a cached info dict only if it
\* was stored less than CACHE_DURATION before; a call that finds an older
\* one removes it from info_cache and cache_times and extracts afresh; an
\* info dict that an extraction returns is stored with the current time and
\* a failed extraction stores nothing; the two dicts have the same keys.
C22_CacheWithinDuration ==
    /\ [](/\ \A r \in Results :
                r.cached => r.info # None /\ r.at - r.info < CACHE_DURATION
          /\ DOMAIN info_cache = DOMAIN cache_times)
    /\ [][CacheStep]_vars

\* play_audio has failed on an entry, and is reporting it, while entry h is
\* the head of the queue
FailsBefore(h) ==
    /\ \E t \in BagToSet(tasks) : t.pc = "pe_send_fail"
    /\ queue # <<>>
    /\ Head(queue) = h

WasDequeued(h) == \E i \in 1 .. Len(dequeued) : dequeued[i] = h

\* C23: in main_efficient.py and bot_main.py, when the dequeued entry fails
\* and entries are queued, the next entry is dequeued for its attempt; and a
\* guild lock that is held is eventually released, so that the later calls
\* of play_next get it.
C23_FailureReleasesLock ==
    /\ \A h \in 1 .. MaxPlays + 1 : FailsBefore(h) ~> WasDequeued(h)
    /\ \A g \in Guilds : locks[g] ~> ~locks[g]

\* in this step the player thread of guild g ends by itself and calls the
\* after callback
CallbackFires(g) ==
    /\ IsPlaying(voice[g])
    /\ voice' = [voice EXCEPT ![g] = Joined]
    /\ \A t \in BagToSet(tasks) : CopiesIn(t, tasks') >= CopiesIn(t, tasks)

\* a step in which a callback fires, as C24 has it
CallbackStep ==
    \A g \in Guilds :
        CallbackFires(g) =>
            /\ tasks' = tasks (+) SetToBag({Finished(g, voice[g].f)})
            /\ UNCHANGED <<queue, current_track, timeout_tasks,
                           downloaded_files>>

\* C24: every completion callback that the player thread fires puts exactly
\* one run of the completion handler on the event loop, and the step of the
\* player thread itself leaves queue, current_track, timeout_tasks and
\* downloaded_files alone, in each of the three programs.
C24_OneHandlerPerCallback == [][CallbackStep]_vars

\* main.py takes the guild lock in one place, the `async with` of play_next
\* (main.py:1227-1245), and the block it guards changes the queue by
\* popping its head and never writes current_track. A step whose changes
\* of the queue and of current_track were all made under the lock is
\* therefore one that leaves both alone or pops the head.
UnderLockStep ==
    /\ current_track' = current_track
    /\ \/ queue' = queue /\ dequeued' = dequeued
       \/ /\ queue # <<>>
          /\ queue' = Tail(queue)
          /\ dequeued' = Append(dequeued, Head(queue))

\* C25: every step that changes the queue or writes current_track makes the
\* change while the coroutine holds the guild lock.
C25_MutationsUnderLock == [][UnderLockStep]_vars

\* an entry that a command of guild g created is queued
HasQueued(g) == \E i \in 1 .. Len(queue) : entries[queue[i]].g = g

\* C26: the idle timer of a guild is cancelled before an entry of the guild
\* is put into the queue: in no reachable state is an entry of the guild
\* queued while its idle timer is pending.
C26_NoTimerWhileQueued ==
    \A g \in Guilds : HasQueued(g) => ~TimerPending(g)

\* in this step the handle_idle task of guild g runs leave_voice
IdleTeardown(g) == teardown'[g] # teardown[g]

\* a step of the idle teardown as C27 has it
TeardownStep ==
    \A g \in Guilds :
        IdleTeardown(g) => /\ Attempts(g) = 0
                           /\ ~HasQueued(g)

\* C27: handle_idle runs leave_voice for a guild only when no entry of the
\* guild is being resolved, playing or paused and none is queued.
C27_TeardownOnlyWhenIdle == [][TeardownStep]_vars

\* in this step a play_next of guild g finds the queue empty and starts
\* handle_idle
ArmsTimer(g) ==
    /\ timeout_tasks[g] # "sleeping"
    /\ timeout_tasks'[g] = "sleeping"

\* a step into Idle as C28 has it
GoesIdleStep ==
    \A g \in Guilds :
        ArmsTimer(g) => /\ queue' = <<>>
                        /\ current_track' = NoTrack
                        /\ TimerPending(g)'

\* C28: when play_next finds the queue empty after a track completed or
\* after a pass that skipped every entry, the idle timer is armed and
\* current_track is None, so that nowplaying reports nothing.
C28_IdleHasNoCurrentTrack == [][GoesIdleStep]_vars

\* play has appended entry h while nothing was playing, and its call of
\* play_next waits for the guild lock
EnqueuedIdle(h) == \E t \in BagToSet(tasks) : t.pc = "pe_lock" /\ t.e = h

\* a step in which play appends an entry while nothing is playing and the
\* lock is free: play_next dequeues within the command
StartsWithinCommand ==
    \A t \in Resuming("pe_play_extract") :
        (Len(entries') > Len(entries) /\ ~IsPlaying(voice[t.g]) /\ ~locks[t.g])
            => Len(dequeued') > Len(dequeued)

\* C29: in main_efficient.py and bot_main.py, when play appends an entry
\* while nothing is playing, play_next runs within the command, and the
\* appended entry is eventually dequeued for its attempt with no further
\* command.
C29_IdlePlayIsAttempted ==
    /\ [][StartsWithinCommand]_vars
    /\ \A h \in 1 .. MaxPlays : EnqueuedIdle(h) ~> WasDequeued(h)

\* a step in which the after callback of guild g is called, as C30 has it:
\* one playback_finished is scheduled, whatever the error
ErrorCallbackStep ==
    \A g \in Guilds :
        CallbackFires(g) =>
            \E error \in Errors :
                tasks' = tasks (+)
                    SetToBag({[Finished(g, voice[g].f) EXCEPT !.error = error]})

\* the cleanup_file of playback_finished has run: the file is gone and the
\* handler is in its sleep
ErrorCleanupStep ==
    \A t \in Resuming("pf_cleanup") :
        /\ ~Exists(fs', t.f)
        /\ t.f \notin downloaded_files'
        /\ \E u \in BagToSet(tasks') :
              /\ u.pc = "pf_sleep" /\ u.g = t.g
              /\ CopiesIn(u, tasks') > CopiesIn(u, tasks)
        /\ UNCHANGED <<queue, dequeued, timeout_tasks, voice>>

\* the play_next of playback_finished has run: it dequeues the head of the
\* queue, or arms the idle timer when the queue is empty
ErrorAdvanceStep ==
    \A t \in Resuming("pf_sleep") :
        ~locks[t.g] =>
            IF queue = <<>>
            THEN timeout_tasks'[t.g] = "sleeping" /\ dequeued' = dequeued
            ELSE /\ queue' = Tail(queue)
                 /\ dequeued' = Append(dequeued, Head(queue))
                 /\ timeout_tasks'[t.g] = "none"

\* C30: in main.py a completion callback with an error of any kind is
\* handled as one without: the file is cleaned up and play_next dequeues the
\* next entry or arms the idle timer.
C30_ErrorHandledAsCompletion ==
    [][ErrorCallbackStep /\ ErrorCleanupStep /\ ErrorAdvanceStep]_vars

\* the track of entry 1 failed with an ffmpeg error, its file has been
\* removed and the handler is about to call play_next with entry 2 queued
C30_FfmpegErrorCleanedUp ==
    /\ started = <<1>>
    /\ \E t \in BagToSet(tasks) : t.pc = "pf_sleep" /\ t.error = "ffmpeg"
    /\ ~Exists(fs, 1)
    /\ queue # <<>>

\* the call of play_next made for guild 1 has not returned yet
PassBusy ==
    \E t \in BagToSet(tasks) :
        t.g = 1 /\ t.pc \in PassPcs \cup {"pa_send_playing"}

\* the state in which play_next returns, as C31 has it
HandedOne ==
    /\ Len(started) = 1
    /\ IsPlaying(voice[1])
    /\ voice[1].e = started[1]

WentIdle ==
    /\ started = <<>>
    /\ queue = <<>>
    /\ timeout_tasks[1] = "sleeping"

\* a step in which play_next returns
PassReturnStep ==
    PassBusy /\ ~PassBusy' =>
        /\ (HandedOne /\ ~WentIdle)' \/ (WentIdle /\ ~HandedOne)'
        /\ ~locks'[1]

\* C31: with no enqueue during the call, play_next of main.py dequeues each
\* entry that was queued at most once and returns; when it returns either
\* one entry has been handed to the voice client or the queue is empty and
\* the idle timer armed, and the guild lock is free.
C31_PassTerminates ==
    /\ [](/\ Len(dequeued) <= Len(entries)
          /\ \A i, j \in 1 .. Len(dequeued) :
                dequeued[i] = dequeued[j] => i = j)
    /\ [][PassReturnStep]_vars
    /\ <>(~PassBusy)

\* the pass over three entries has returned with the third one playing
C31_ReturnedWithThird ==
    /\ ~PassBusy
    /\ Len(entries) >= 4
    /\ dequeued = <<1, 2, 3>>
    /\ started = <<3>>
    /\ queue # <<>>

\* what no step of preload_next_song changes
PreloadFrame ==
    UNCHANGED <<queue, current_track, entries, locks, timeout_tasks, voice,
                dequeued, started>>

\* the steps of preload_next_song, as C32 has them
PreloadStep ==
    /\ \A t \in Resuming("pre_start") :
          /\ PreloadFrame
          /\ UNCHANGED <<info, fs, downloaded_files>>
          /\ tasks' = IF queue = <<>> \/ Head(queue) \in info
                      THEN tasks (-) SetToBag({t})
                      ELSE (tasks (-) SetToBag({t})) (+)
                           SetToBag({Tk("pre_extract", t.g, Head(queue), 0, 0, 0)})
    /\ \A t \in Resuming("pre_extract") :
          /\ PreloadFrame
          /\ UNCHANGED <<fs, downloaded_files>>
          /\ info' \in {info, info \cup {t.e}}
          /\ \/ tasks' = tasks (-) SetToBag({t})
             \/ /\ FORCE_DOWNLOAD
                /\ tasks' = (tasks (-) SetToBag({t})) (+)
                       SetToBag({Tk("pre_download", t.g, t.e, 0, 0, 0)})
    /\ \A t \in Resuming("pre_download") :
          /\ PreloadFrame
          /\ info' = info
          /\ tasks' = tasks (-) SetToBag({t})
          /\ \A f \in 1 .. Len(entries) :
                f # entries[t.e].url =>
                    /\ Exists(fs', f) <=> Exists(fs, f)
                    /\ f \in downloaded_files' <=> f \in downloaded_files

\* C32: preload_next_song resolves, and under FORCE_DOWNLOAD downloads, only
\* the entry that was at the head of the queue when it started, does nothing
\* when the queue is empty or that entry has its info, and never changes the
\* queue, also when the entry is dequeued or removed or the queue shuffled
\* while it is suspended.
C32_PreloadHeadOnly == [][PreloadStep]_vars

\* entry 2 was the head when the preload started and was removed while the
\* preload was suspended; its info has been stored and its download goes on
C32_PreloadOfRemoved ==
    /\ \E t \in BagToSet(tasks) : t.pc = "pre_download" /\ t.e = 2
    /\ 2 \in info
    /\ queue = <<3>>
    /\ dequeued = <<1>>

\* sel is what the claim says a selector returns for formats, when score(i)
\* is the score of the i-th format and frag(i) its fragmentation
AsStated(formats, sel, score(_), frag(_)) ==
    LET Q == {i \in 1 .. Len(formats) : Qualifies(formats[i])}
    IN  /\ sel.url # NoUrl <=> Q # {}
        /\ Q # {} =>
              \E i \in Q :
                  /\ formats[i].url = sel.url
                  /\ \A j \in Q : score(j) <= score(i)
                  /\ \A j \in Q : score(j) = score(i) => i <= j
                  /\ sel.is_fragmented = frag(i)

\* C33: select_format of main.py and select_best_format of audio_manager.py
\* return a candidate exactly when some format has a url and an audio codec;
\* it is the first of the formats with both that have the highest score, and
\* the flag returned is the fragmentation of that format.
C33_FirstOfTheBest ==
    \A formats \in Delivered :
        /\ LET score(i) == Score(formats[i])
               frag(i) == is_fragmented(formats[i])
           IN  AsStated(formats, select_format(formats), score, frag)
        /\ LET score(i) == ScoreManager(formats[i])
               frag(i) == _is_fragmented(formats[i])
           IN  AsStated(formats, select_best_format(formats), score, frag)

\* the first and the third of three candidates score the same, the second
\* less, and both selectors return the first
C33_TieGoesToFirst ==
    \E formats \in Delivered :
        /\ Len(formats) = 3
        /\ \A i \in 1 .. 3 : Qualifies(formats[i])
        /\ Score(formats[1]) = Score(formats[3])
        /\ Score(formats[2]) < Score(formats[1])
        /\ ScoreManager(formats[1]) = ScoreManager(formats[3])
        /\ ScoreManager(formats[2]) < ScoreManager(formats[1])
        /\ select_format(formats).url = "x"
        /\ select_best_format(formats).url = "x"

\* the lock objects held by the coroutines of guild g that have called
\* get_guild_lock and not used the lock yet
HeldLocks(g) ==
    {t.f : t \in {x \in BagToSet(tasks) : x.pc = "gl_got" /\ x.g = g}}

\* a lock stored for a guild stays the lock of that guild
LockKeptStep ==
    \A g \in DOMAIN lock_dict :
        g \in DOMAIN lock_dict' /\ lock_dict'[g] = lock_dict[g]

\* C34: all calls of get_guild_lock for one guild return the same lock
\* object, also when several coroutines hold it before any has used it, and
\* calls for different guilds return different objects.
C34_OneLockPerGuild ==
    /\ [](\A g \in Guilds :
            /\ HeldLocks(g) # {} =>
                  g \in DOMAIN lock_dict /\ HeldLocks(g) = {lock_dict[g]}
            /\ \A h \in Guilds \ {g} : HeldLocks(g) \cap HeldLocks(h) = {})
    /\ [][LockKeptStep]_vars

\* three coroutines of guild 1 and one of guild 2 hold their locks unused
C34_ThreeHoldOneLock ==
    /\ \E t \in BagToSet(tasks) :
          t.pc = "gl_got" /\ t.g = 1 /\ CopiesIn(t, tasks) = 3
    /\ HeldLocks(2) # {}
    /\ locks_made = 2

\* the entries other than the track that is restarted and its new copy
IsOther(e) == entries[e].url # entries[1].url

\* C35: when the playing track 1 is restarted, the other queued entries stay
\* in the queue in their order, and none of them is dequeued for an attempt,
\* whichever of the completion callback and restart's own play_next runs
\* first.
C35_RestartLeavesOthers ==
    /\ \A i \in 1 .. Len(dequeued) : ~IsOther(dequeued[i])
    /\ SelectSeq(queue, IsOther) =
           [i \in 1 .. Len(SelectSeq(queue, IsOther)) |-> i + 1]
    /\ \A e \in 1 .. Len(entries) :
           IsOther(e) => \E i \in 1 .. Len(queue) : queue[i] = e

\* the download of the entry of attempt t has succeeded in this step: its
\* file is there and big enough, and the attempt goes to the voice client
DownloadSucceeds(t) ==
    /\ t.pc = "pa_download"
    /\ BigEnough(fs', entries[t.e].url)

\* a step in which an attempt reaches the voice client, as C36 has it: the
\* client is not playing another track, which would make voice_client.play
\* raise and the entry count as failed
ReachesFreeClientStep ==
    \A t \in Resuming("pa_download") :
        DownloadSucceeds(t) /\ voice[t.g].conn =>
            /\ ~IsPlaying(voice[t.g])
            /\ \A x \in BagToSet(tasks') :
                  x.pc = "pa_send_fail" /\ x.e = t.e => ~IsPlaying(voice'[t.g])

\* C36: an entry that play_next has dequeued and whose download succeeded
\* never finds the voice client playing another track when its attempt
\* reaches it, so it is not counted as failed on that account.
C36_NoEntryLostToBusyClient == [][ReachesFreeClientStep]_vars

\* C37: while the voice client of a guild plays a track, current_track is
\* the entry that was handed to it, which is what nowplaying reports.
C37_CurrentIsAudible ==
    \A g \in Guilds : IsPlaying(voice[g]) => current_track = voice[g].e

\* the numbered lines of message m, in the order of the message
Numbered(m) == SelectSeq(m, LAMBDA l : l.kind = "entry")

\* message m shows queue q as C38 has it
ShowsQueue(m, q) ==
    LET lines == Numbered(m)
    IN  /\ \A k \in 1 .. Len(lines) :
              /\ lines[k].number \in 1 .. Len(q)
              /\ q[lines[k].number] = lines[k].e
        /\ \A j, k \in 1 .. Len(lines) :
              j < k => lines[j].number < lines[k].number
        /\ \A k \in 1 .. Len(m) :
              m[k].kind = "more" => m[k].number = Len(q) - Len(lines)

\* C38: every numbered line of the queue display carries the position the
\* entry has in the queue, the lines are in queue order, and the line that
\* tells how many more songs there are counts the entries not shown.
C38_DisplayNumbersArePositions ==
    \A t \in BagToSet(tasks) : t.pc = "qd_send" => ShowsQueue(t.f, queue)

\* SpecLimit: a track plays with QueueLimit - MaxList .. QueueLimit entries
\* queued; up to LimitCmds commands that enqueue (playlist with a URL,
\* playlist with words and a number, play, playnext) arrive at any time, and
\* their searches, extractions and sends return in any order. The track
\* keeps playing, so nothing is dequeued.
LimitCmds == MaxCmds + 1

InitLimit == \E n \in QueueLimit - MaxList .. QueueLimit : SessionOf(n, EmptyBag)

NextLimit ==
    \/ Playlist(1, 1 + LimitCmds)
    \/ \E m \in 1 .. MaxList : PlaylistSearch(1, m, 1 + LimitCmds)
    \/ \E u \in CmdUrls : Play(1, u, 1 + LimitCmds)
    \/ \E u \in CmdUrls : PlayNextUrl(1, u, 1 + LimitCmds)
    \/ PlaylistFetched
    \/ PlaylistWarned
    \/ PlaylistSearchWarned
    \/ PlaylistSearched
    \/ PlaylistFullSent
    \/ PlaylistNoneSent
    \/ PlaylistSent
    \/ PlayExtracted
    \/ PlayNextExtracted

SpecLimit == InitLimit /\ [][NextLimit]_vars

\* the playlist commands that append entries in this step
PlaylistAppending ==
    {t \in Resuming("pl_fetch") \cup Resuming("pl_warn")
            \cup Resuming("pl_search") : Len(queue') > Len(queue)}

\* a playlist command arrives in this step
PlaylistArrives ==
    /\ cmds' = cmds + 1
    /\ \E t \in BagToSet(tasks') :
           /\ t.pc \in {"pl_fetch", "pl_search", "pls_warn", "pl_full"}
           /\ CopiesIn(t, tasks') > CopiesIn(t, tasks)

PlaylistLimitStep ==
    /\ PlaylistAppending # {} => Len(queue') <= QueueLimit
    /\ Resuming("pl_full") # {} => queue' = queue
    /\ PlaylistArrives /\ Len(queue) >= QueueLimit =>
           /\ queue' = queue
           /\ \A t \in BagToSet(tasks') :
                  CopiesIn(t, tasks') > CopiesIn(t, tasks) =>
                      t.pc \in {"pl_full", "pl_fetch"}
    /\ Resuming("pl_fetch") # {} /\ Len(queue) >= QueueLimit =>
           /\ queue' = queue
           /\ \E t \in BagToSet(tasks') :
                  t.pc = "pl_full" /\ CopiesIn(t, tasks') > CopiesIn(t, tasks)

\* C39: a playlist command that appends entries leaves at most QueueLimit
\* entries in the queue, whatever other enqueueing commands ran while it was
\* suspended in its search, its extraction or a send; a playlist command
\* that finds QueueLimit entries queued is answered "Queue is full" and adds
\* nothing.
C39_PlaylistKeepsLimit == [][PlaylistLimitStep]_vars

\* SpecTimers: one guild under main.py or bot_main.py; play, of one video, is
\* issued up to MaxCmds times, main.py also takes skip and stop, the idle
\* timer may elapse and the leave command may arrive at any time.
InitTimers == \E p \in {"main", "bot_main"} : Fresh(p)

NextTimers ==
    \/ Engine
    \/ LockAcquired
    \/ TrackEnds(1)
    \/ IdleElapsed(1)
    \/ IdleLeave(1)
    \/ Leave(1)
    \/ program = "main" /\ Play(1, 1, MaxCmds)
    \/ PlayExtracted
    \/ program = "main" /\ Skip(1)
    \/ program = "main" /\ Stop(1)
    \/ program = "bot_main" /\ EntryPlay(1, 1, MaxCmds)
    \/ EntryPlayExtracted
    \/ EntryLockAcquired
    \/ EntryDownloadDone
    \/ EntrySendFailDone
    \/ EntrySendPlayingDone

SpecTimers == InitTimers /\ [][NextTimers]_vars

\* the handle_idle tasks of guild g that were created and have neither
\* finished nor been cancelled
PendingTimers(g) ==
    idle_timers[g].stray + IF TimerPending(g) THEN 1 ELSE 0

\* C40: a guild has at most one pending idle-timer task, which is the one
\* timeout_tasks[guild] refers to, and no timer has been stored over an entry
\* of timeout_tasks: the entry is cancelled and removed before a timer is armed.
C40_OneIdleTimer ==
    \A g \in Guilds :
        /\ PendingTimers(g) <= 1
        /\ PendingTimers(g) = 1 => TimerPending(g)
        /\ idle_timers[g].replaced = 0

\* a timer is pending after two entries were dequeued: it was armed, then
\* cancelled by the play_next that dequeued the second entry, and armed again
C40_ArmedAgain ==
    /\ timeout_tasks[1] = "sleeping"
    /\ Len(dequeued) >= 2
    /\ voice[1].conn

====
